---- MODULE Spec2Model ----
(***************************************************************************)
(* Model of the query builder (searchArg.js), the row formatters           *)
(* (model/Gene.js, model/GeneView.js) and the request handlers             *)
(* (server.js) of the GenomeCRISPR data warehouse.                         *)
(*                                                                         *)
(* JavaScript values are records [t, n, d, s]:                             *)
(*   t  the type tag: "undefined", "null", "nan", "num", "str"             *)
(*   n/d  the value of a number, a rational in lowest terms with d > 0     *)
(*   s  the content of a string, a sequence of atoms                       *)
(* An atom is one character (" ", "1", "a") or an indivisible word         *)
(* ("up", "rowid") standing for its characters; no operation of the code   *)
(* modelled here looks inside a word.  The alphabet has no ".", "e" or     *)
(* "x", so every numeric string is a decimal integer literal.              *)
(* SQL text is a string as well: a sequence of atoms in which "?" is the   *)
(* placeholder character.                                                  *)
(***************************************************************************)
EXTENDS Integers, Sequences, FiniteSets, TLC

VARIABLES op, arg, out

vars == <<op, arg, out>>

----------------------------------------------------------------------------
(* JavaScript values *)

Undef == [t |-> "undefined", n |-> 0, d |-> 1, s |-> <<>>]
Null  == [t |-> "null", n |-> 0, d |-> 1, s |-> <<>>]
NaN   == [t |-> "nan", n |-> 0, d |-> 1, s |-> <<>>]
Str(s) == [t |-> "str", n |-> 0, d |-> 1, s |-> s]

Abs(x) == IF x < 0 THEN -x ELSE x

RECURSIVE Gcd(_, _)
Gcd(a, b) == IF b = 0 THEN a ELSE Gcd(b, a % b)

\* the number n/d (d # 0), normalised
Rat(n, d) ==
    LET g == Gcd(Abs(n), Abs(d))
        sg == IF d < 0 THEN -1 ELSE 1
    IN [t |-> "num", n |-> sg * (n \div g), d |-> sg * (d \div g), s |-> <<>>]

Num(n) == [t |-> "num", n |-> n, d |-> 1, s |-> <<>>]

IsNum(v) == v.t = "num"

\* ECMAScript ToBoolean
Truthy(v) ==
    CASE v.t = "str" -> v.s # <<>>
      [] v.t = "num" -> v.n # 0
      [] OTHER -> FALSE

Digits == {"0", "1", "2", "3", "4", "5", "6", "7", "8", "9"}

DigitVal(c) ==
    CASE c = "0" -> 0 [] c = "1" -> 1 [] c = "2" -> 2 [] c = "3" -> 3
      [] c = "4" -> 4 [] c = "5" -> 5 [] c = "6" -> 6 [] c = "7" -> 7
      [] c = "8" -> 8 [] c = "9" -> 9

IsWhite(c) == c = " "

\* String.prototype.trim
RECURSIVE TrimStart(_)
TrimStart(s) ==
    IF s # <<>> /\ IsWhite(Head(s)) THEN TrimStart(Tail(s)) ELSE s

RECURSIVE TrimEnd(_)
TrimEnd(s) ==
    IF s # <<>> /\ IsWhite(s[Len(s)]) THEN TrimEnd(SubSeq(s, 1, Len(s) - 1)) ELSE s

Trim(s) == TrimEnd(TrimStart(s))

\* the longest prefix of decimal digits
RECURSIVE DigitPrefix(_)
DigitPrefix(s) ==
    IF s # <<>> /\ Head(s) \in Digits THEN <<Head(s)>> \o DigitPrefix(Tail(s)) ELSE <<>>

RECURSIVE DigitsValue(_)
DigitsValue(ds) ==
    IF ds = <<>> THEN 0
    ELSE 10 * DigitsValue(SubSeq(ds, 1, Len(ds) - 1)) + DigitVal(ds[Len(ds)])

HasSign(s) == s # <<>> /\ Head(s) \in {"+", "-"}
Unsigned(s) == IF HasSign(s) THEN Tail(s) ELSE s
SignOf(s) == IF s # <<>> /\ Head(s) = "-" THEN -1 ELSE 1

\* parseInt / parseFloat of a string: leading white space, a sign, then the
\* longest run of digits; NaN when there is no digit
ParsePrefix(s) ==
    LET u == TrimStart(s)
        ds == DigitPrefix(Unsigned(u))
    IN IF ds = <<>> THEN NaN ELSE Num(SignOf(u) * DigitsValue(ds))

\* ToNumber of a string (what isNaN applies): the whole trimmed string must
\* be a literal; the empty string is 0
StringToNumber(s) ==
    LET u == Trim(s)
        ds == DigitPrefix(Unsigned(u))
    IN IF u = <<>> THEN Num(0)
       ELSE IF ds # <<>> /\ Len(ds) = Len(Unsigned(u)) THEN Num(SignOf(u) * DigitsValue(ds))
       ELSE NaN

ToNumber(v) ==
    CASE v.t = "num" -> v
      [] v.t = "null" -> Num(0)
      [] v.t = "str" -> StringToNumber(v.s)
      [] OTHER -> NaN

\* the global isNaN(v)
isNaN(v) == ToNumber(v).t = "nan"

\* truncation toward zero of n/d
Trunc(n, d) == IF n >= 0 THEN n \div d ELSE -((-n) \div d)

\* the global parseInt(v): ToString(v), then the integer prefix
parseInt(v) ==
    CASE v.t = "num" -> Num(Trunc(v.n, v.d))
      [] v.t = "str" -> ParsePrefix(v.s)
      [] OTHER -> NaN

\* the global parseFloat(v)
parseFloat(v) ==
    CASE v.t = "num" -> v
      [] v.t = "str" -> ParsePrefix(v.s)
      [] OTHER -> NaN

----------------------------------------------------------------------------
(* searchArg.js: SearchArguments *)

\* the instance the previous call of parseSearchQuery returned, used again
SearchArgumentsReused ==
    IF out # <<>> /\ out[Len(out)].call = "parseSearchQuery" THEN out[Len(out)].result
    ELSE [raised |-> FALSE, conditions |-> <<>>, params |-> <<>>]

\* new SearchArguments(); raised records an exception thrown while building
NewSearchArguments == [raised |-> FALSE, conditions |-> <<>>, params |-> <<>>]

addCondition(sa, condition, value) ==
    [sa EXCEPT !.conditions = Append(@, condition), !.params = Append(@, value)]

\* Array.prototype.join of strings
RECURSIVE Join(_, _)
Join(strs, sep) ==
    IF strs = <<>> THEN <<>>
    ELSE IF Len(strs) = 1 THEN strs[1]
    ELSE strs[1] \o sep \o Join(Tail(strs), sep)

\* a WHERE clause of the first condition only
buildWhereClauseFirst(sa) ==
    IF Len(sa.conditions) = 0 THEN <<>> ELSE <<" WHERE ">> \o sa.conditions[1]

buildWhereClause(sa) ==
    IF Len(sa.conditions) = 0 THEN <<>>
    ELSE <<" WHERE ">> \o Join(sa.conditions, <<" AND ">>)

getParams(sa) == sa.params

\* a TypeError thrown inside the builder: nothing is returned
Throw(sa) == [sa EXCEPT !.raised = TRUE]

\* `%${s.trim()}%`
Wildcard(s) == Str(<<"%">> \o Trim(s) \o <<"%">>)

----------------------------------------------------------------------------
(* searchArg.js: parseSearchQuery *)

Fields == {"query", "chr", "strand", "effect", "startPos", "endPos", "cellline",
           "condition", "minLog2fc", "maxLog2fc", "screentype", "cas", "pubmed"}

QueryFragment ==
    <<"(", "symbol", " LIKE ", "?", " OR ", "ensg", " LIKE ", "?", " OR ",
      "sequence", " LIKE ", "?", " OR ", "cellline", " LIKE ", "?", " OR ",
      "condition", " LIKE ", "?", ")">>

\* searchArgs.params.push(query, query, query, query)
PushQueryDropped(params, query) == params

PushQuery(params, query) == params \o <<query, query, query, query>>

TrimmedValue(s) == Str(Trim(s))

\* `v && v.trim()` guards a filter: a truthy value that is no string has no
\* trim method and the call throws; otherwise the trimmed value is bound to
\* frag, between wildcards when the fragment is a LIKE
TextFilter(sa, v, frag, like) ==
    IF sa.raised \/ ~Truthy(v) THEN sa
    ELSE IF v.t # "str" THEN Throw(sa)
    ELSE IF Trim(v.s) = <<>> THEN sa
    ELSE addCondition(sa, frag, IF like THEN Wildcard(v.s) ELSE TrimmedValue(v.s))

QueryFilter(sa, v) ==
    LET one == TextFilter(sa, v, QueryFragment, TRUE)
    IN IF one.raised \/ Len(one.conditions) = Len(sa.conditions) THEN one
       ELSE [one EXCEPT !.params = PushQuery(@, Wildcard(v.s))]

\* a strand filter that compares the trimmed value
StrandFilterTrimmed(sa, v) ==
    IF sa.raised THEN sa
    ELSE IF Truthy(v) /\ v.t = "str" /\ (Trim(v.s) = <<"+">> \/ Trim(v.s) = <<"-">>)
         THEN addCondition(sa, <<"strand", " = ", "?">>, v)
    ELSE sa

StrandFilter(sa, v) ==
    IF sa.raised THEN sa
    ELSE IF Truthy(v) /\ (v = Str(<<"+">>) \/ v = Str(<<"-">>))
         THEN addCondition(sa, <<"strand", " = ", "?">>, v)
    ELSE sa

\* an effect filter whose bounds include 0
EffectFilterInclusive(sa, v) ==
    IF sa.raised \/ ~Truthy(v) THEN sa
    ELSE IF v = Str(<<"up">>)
         THEN addCondition(sa, <<"CAST(", "log2fc", " AS REAL)", " >= ", "?">>, Num(0))
    ELSE IF v = Str(<<"down">>)
         THEN addCondition(sa, <<"CAST(", "log2fc", " AS REAL)", " <= ", "?">>, Num(0))
    ELSE sa

EffectFilter(sa, v) ==
    IF sa.raised \/ ~Truthy(v) THEN sa
    ELSE IF v = Str(<<"up">>)
         THEN addCondition(sa, <<"CAST(", "log2fc", " AS REAL)", " > ", "?">>, Num(0))
    ELSE IF v = Str(<<"down">>)
         THEN addCondition(sa, <<"CAST(", "log2fc", " AS REAL)", " < ", "?">>, Num(0))
    ELSE sa

\* `v && !isNaN(v)` guards a range bound, parsed by parseInt (a position)
\* or by parseFloat (a score)
RangeFilter(sa, v, frag, position) ==
    IF sa.raised THEN sa
    ELSE IF Truthy(v) /\ ~isNaN(v)
         THEN addCondition(sa, frag, IF position THEN parseInt(v) ELSE parseFloat(v))
    ELSE sa

parseSearchQuery(q) ==
    LET s0 == NewSearchArguments
        s1 == QueryFilter(s0, q.query)
        s2 == TextFilter(s1, q.chr, <<"chr", " = ", "?">>, FALSE)
        s3 == StrandFilter(s2, q.strand)
        s4 == EffectFilter(s3, q.effect)
        s5 == RangeFilter(s4, q.startPos,
                          <<"CAST(", "start", " AS INTEGER)", " >= ", "?">>, TRUE)
        s6 == RangeFilter(s5, q.endPos,
                          <<"CAST(", "end", " AS INTEGER)", " <= ", "?">>, TRUE)
        s7 == TextFilter(s6, q.cellline, <<"cellline", " LIKE ", "?">>, TRUE)
        s8 == TextFilter(s7, q.condition, <<"condition", " LIKE ", "?">>, TRUE)
        s9 == RangeFilter(s8, q.minLog2fc,
                          <<"CAST(", "log2fc", " AS REAL)", " >= ", "?">>, FALSE)
        s10 == RangeFilter(s9, q.maxLog2fc,
                           <<"CAST(", "log2fc", " AS REAL)", " <= ", "?">>, FALSE)
        s11 == TextFilter(s10, q.screentype, <<"screentype", " LIKE ", "?">>, TRUE)
        s12 == TextFilter(s11, q.cas, <<"cas", " LIKE ", "?">>, TRUE)
        s13 == TextFilter(s12, q.pubmed, <<"pubmed", " = ", "?">>, FALSE)
    IN s13

----------------------------------------------------------------------------
(* frontend/js/charts.js: the copy of parseSearchQuery kept in that file,    *)
(* which searches symbol and ensg only and knows five filters               *)

LegacyQueryFragment == <<"(", "symbol", " LIKE ", "?", " OR ", "ensg", " LIKE ", "?", ")">>

LegacyQueryFilter(sa, v) ==
    LET one == TextFilter(sa, v, LegacyQueryFragment, TRUE)
    IN IF one.raised \/ Len(one.conditions) = Len(sa.conditions) THEN one
       ELSE [one EXCEPT !.params = Append(@, Wildcard(v.s))]

parseSearchQueryLegacy(q) ==
    LET s0 == NewSearchArguments
        s1 == LegacyQueryFilter(s0, q.query)
        s2 == TextFilter(s1, q.chr, <<"chr", " = ", "?">>, FALSE)
        s3 == StrandFilter(s2, q.strand)
        s4 == EffectFilter(s3, q.effect)
        s5 == TextFilter(s4, q.cellline, <<"cellline", " LIKE ", "?">>, TRUE)
    IN s5

----------------------------------------------------------------------------
(* searchArg.js: buildSearchQuery *)

\* a destructuring default: used when the property is undefined
Default(v, dflt) == IF v.t = "undefined" THEN dflt ELSE v

RECURSIVE NatToAtoms(_)
NatToAtoms(n) ==
    LET c == CASE n % 10 = 0 -> "0" [] n % 10 = 1 -> "1" [] n % 10 = 2 -> "2"
               [] n % 10 = 3 -> "3" [] n % 10 = 4 -> "4" [] n % 10 = 5 -> "5"
               [] n % 10 = 6 -> "6" [] n % 10 = 7 -> "7" [] n % 10 = 8 -> "8"
               [] n % 10 = 9 -> "9"
    IN IF n < 10 THEN <<c>> ELSE NatToAtoms(n \div 10) \o <<c>>

\* `${v}`: ToString of a value inside a template literal
ToText(v) ==
    CASE v.t = "str" -> v.s
      [] v.t = "num" /\ v.d = 1 ->
            IF v.n < 0 THEN <<"-">> \o NatToAtoms(-v.n) ELSE NatToAtoms(v.n)
      [] v.t = "num" /\ v.d # 1 -> <<"fraction">>
      [] v.t = "nan" -> <<"NaN">>
      [] v.t = "null" -> <<"null">>
      [] OTHER -> <<"undefined">>

\* String.prototype.toUpperCase, atom by atom
UpperAtom(c) ==
    CASE c = "asc" -> "ASC"
      [] c = "desc" -> "DESC"
      [] c = "Desc" -> "DESC"
      [] c = "a" -> "A"
      [] OTHER -> c

toUpperCase(s) == [i \in 1..Len(s) |-> UpperAtom(s[i])]

\* (page - 1) * limit on numbers
Offset(page, limit) ==
    IF IsNum(page) /\ IsNum(limit)
    THEN Rat((page.n - page.d) * limit.n, page.d * limit.d)
    ELSE NaN

allowedFields ==
    {"rowid", "start", "end", "chr", "strand", "symbol", "ensg", "log2fc", "effect",
     "cellline"}

validSortColumns ==
    {"rowid", "start", "end", "chr", "strand", "symbol", "ensg", "log2fc", "effect",
     "cellline", "condition"}

\* validSortColumns.includes(sortBy)
IncludesColumn(sortBy) ==
    sortBy.t = "str" /\ Len(sortBy.s) = 1 /\ sortBy.s[1] \in validSortColumns

\* a sort field that is embedded without the whitelist
SafeSortByUnchecked(sortBy) == sortBy

SafeSortBy(sortBy) == IF IncludesColumn(sortBy) THEN sortBy ELSE Str(<<"rowid">>)

SafeSortOrder(sortOrder) ==
    IF toUpperCase(sortOrder.s) \in {<<"ASC">>, <<"DESC">>}
    THEN Str(toUpperCase(sortOrder.s))
    ELSE Str(<<"ASC">>)

\* the body of buildSearchQuery after searchArgs = parseSearchQuery(...);
\* raised when that call threw or sortOrder has no toUpperCase method
BuildWith(searchArgs, options) ==
    LET page == Default(options.page, Num(1))
        limit == Default(options.limit, Num(50))
        sortBy == Default(options.sortBy, Str(<<"start">>))
        sortOrder == Default(options.sortOrder, Str(<<"ASC">>))
        offset == Offset(page, limit)
        whereClause == buildWhereClause(searchArgs)
        orderClause == <<" ORDER BY ">> \o ToText(SafeSortBy(sortBy)) \o <<" ">>
                       \o ToText(SafeSortOrder(sortOrder))
        limitClause == <<" LIMIT ">> \o ToText(limit) \o <<" OFFSET ">> \o ToText(offset)
    IN IF searchArgs.raised \/ sortOrder.t # "str"
       THEN [raised |-> TRUE, query |-> <<>>, countQuery |-> <<>>, params |-> <<>>]
       ELSE [raised |-> FALSE,
             query |-> <<"SELECT rowid, * FROM genome_crispr">> \o whereClause
                       \o orderClause \o limitClause,
             countQuery |-> <<"SELECT COUNT(*) as count FROM genome_crispr">>
                            \o whereClause,
             params |-> getParams(searchArgs)]

buildSearchQuery(q, options) == BuildWith(parseSearchQuery(q), options)

buildSearchQueryLegacy(q, options) == BuildWith(parseSearchQueryLegacy(q), options)

----------------------------------------------------------------------------
(* Number arithmetic of the formatters *)

\* a || b
Or(a, b) == IF Truthy(a) THEN a ELSE b

\* v !== null && ... ? v : null for a parsed number
NullIfNaN(v) == IF v.t = "nan" THEN Null ELSE v

Add(a, b) == Rat(a.n * b.d + b.n * a.d, a.d * b.d)

\* Math.floor((s + e) / 2) of two integers
FloorHalf(s, e) == Num((s.n + e.n) \div 2)

\* Math.abs(e - s) + 1 of two integers
SpanLength(s, e) == Num(Abs(e.n - s.n) + 1)

RECURSIVE TwoToThe(_)
TwoToThe(k) == IF k = 0 THEN 1 ELSE 2 * TwoToThe(k - 1)

\* Math.pow(2, v): exact for an integer exponent; a fractional exponent gives
\* an irrational number, which the model only names
Pow2(v) ==
    IF v.t # "num" THEN NaN
    ELSE IF v.d # 1 THEN [t |-> "irrational", n |-> v.n, d |-> v.d, s |-> <<>>]
    ELSE IF v.n >= 0 THEN Num(TwoToThe(v.n))
    ELSE Rat(1, TwoToThe(-v.n))

\* v.length
LengthOf(v) == IF v.t = "str" THEN Num(Len(v.s)) ELSE Undef

----------------------------------------------------------------------------
(* model/Gene.js: Gene.fromDbRow(row).toJSON(), the flat formatter *)

\* gene.length: the sequence length when the row has a sequence
FlatLength(row, start, end) ==
    IF Truthy(row.sequence) THEN LengthOf(row.sequence)
    ELSE IF Truthy(start) /\ Truthy(end) THEN SpanLength(start, end)
    ELSE Null

\* gene.midpoint
FlatMidpoint(start, end) ==
    IF Truthy(start) /\ Truthy(end) THEN FloorHalf(start, end) ELSE Null

\* gene.foldChange
FlatFoldChange(log2fc) == IF log2fc.t # "nan" THEN Pow2(log2fc) ELSE Null

GeneFromDbRow(row) ==
    LET start == NullIfNaN(parseInt(row.start))
        end == NullIfNaN(parseInt(row.end))
        log2fc == parseFloat(row.log2fc)
    IN [id |-> Or(row.id, row.rowid),
        symbol |-> row.symbol,
        start |-> start,
        end |-> end,
        strand |-> row.strand,
        sequence |-> row.sequence,
        log2fc |-> NullIfNaN(log2fc),
        cellline |-> row.cellline,
        condition |-> row.condition,
        length |-> FlatLength(row, start, end),
        midpoint |-> FlatMidpoint(start, end),
        foldChange |-> FlatFoldChange(log2fc),
        totalSgRNAs |-> Num(1),
        averageEffect |-> NullIfNaN(log2fc)]

\* utils/responseHelpers.js: formatGeneFromRow
formatGeneFromRow(row) == GeneFromDbRow([row EXCEPT !.id = row.rowid])

----------------------------------------------------------------------------
(* model/GeneView.js: SgRNAView *)

\* new SgRNAView(data)
NewSgRNAView(data) ==
    [id |-> data.id,
     sequence |-> data.sequence,
     start |-> parseInt(data.start),
     end |-> parseInt(data.end),
     strand |-> data.strand,
     log2fc |-> data.log2fc]

getMidpoint(sg) ==
    IF sg.start.t # "nan" /\ sg.end.t # "nan" THEN FloorHalf(sg.start, sg.end) ELSE Null

getLength(sg) ==
    IF sg.start.t # "nan" /\ sg.end.t # "nan" THEN SpanLength(sg.start, sg.end) ELSE Null

getFoldChange(sg) ==
    LET log2fc == parseFloat(sg.log2fc)
    IN IF log2fc.t = "nan" THEN Null ELSE Pow2(log2fc)

SgRNAViewToJSON(sg) ==
    [id |-> sg.id,
     sequence |-> sg.sequence,
     start |-> sg.start,
     end |-> sg.end,
     strand |-> sg.strand,
     log2fc |-> parseFloat(sg.log2fc),
     midpoint |-> getMidpoint(sg),
     length |-> getLength(sg),
     foldChange |-> getFoldChange(sg)]

----------------------------------------------------------------------------
(* model/Gene.js: the sgRNA entries of Gene.toJSON, the relational formatter; *)
(* sg has the columns of the sgrnas table (start_pos, end_pos)               *)

_calculateMidpoint(start, end) ==
    LET s == parseInt(start)
        e == parseInt(end)
    IN IF s.t # "nan" /\ e.t # "nan" THEN FloorHalf(s, e) ELSE Null

_calculateLength(start, end) ==
    LET s == parseInt(start)
        e == parseInt(end)
    IN IF s.t # "nan" /\ e.t # "nan" THEN SpanLength(s, e) ELSE Null

GeneSgRNAToJSON(sg) ==
    [id |-> Or(sg.sgrna_id, sg.id),
     sequence |-> sg.sequence,
     start |-> Or(sg.start_pos, sg.start),
     end |-> Or(sg.end_pos, sg.end),
     strand |-> sg.strand,
     log2fc |-> parseFloat(sg.log2fc),
     midpoint |-> _calculateMidpoint(Or(sg.start_pos, sg.start), Or(sg.end_pos, sg.end)),
     length |-> _calculateLength(Or(sg.start_pos, sg.start), Or(sg.end_pos, sg.end)),
     foldChange |-> IF Truthy(sg.log2fc) THEN Pow2(parseFloat(sg.log2fc)) ELSE Null]

\* a row of the sgrnas table carrying the values of a flat row
RelationalRow(row) ==
    [sgrna_id |-> row.rowid, id |-> Undef, sequence |-> row.sequence,
     start_pos |-> row.start, start |-> Undef, end_pos |-> row.end, end |-> Undef,
     strand |-> row.strand, log2fc |-> row.log2fc,
     cellline |-> row.cellline, condition |-> row.condition, symbol |-> row.symbol]

----------------------------------------------------------------------------
(* model/GeneView.js: GeneView and CellLineView.  A Map iterates in         *)
(* insertion order, so cellLines is the sequence of its values.             *)

NewGeneView(data) == [symbol |-> data.symbol, cellLines |-> <<>>]

NewCellLineView(data) == [name |-> data.name, condition |-> data.condition, sgRNAs |-> <<>>]

addSgRNA(cl, sgRNAData) == [cl EXCEPT !.sgRNAs = Append(@, NewSgRNAView(sgRNAData))]

\* the position of the cell line called name, 0 when there is none
CellLineIndex(cellLines, name) ==
    IF \E i \in 1..Len(cellLines) : cellLines[i].name = name
    THEN CHOOSE i \in 1..Len(cellLines) : cellLines[i].name = name
    ELSE 0

\* the entry of name, added at the end when the gene has none yet, and the
\* sgRNA of the row pushed onto it
AddUnder(gv, name, cellLineData, sgRNAData) ==
    LET known == CellLineIndex(gv.cellLines, name) # 0
        lines == IF known THEN gv.cellLines
                 ELSE Append(gv.cellLines,
                             NewCellLineView([name |-> name,
                                              condition |-> cellLineData.condition]))
        i == CellLineIndex(lines, name)
    IN [gv EXCEPT !.cellLines = [lines EXCEPT ![i] = addSgRNA(@, sgRNAData)]]

\* addCellLine with the entry of the cell line set anew on every call
addCellLineReset(gv, cellLineData) ==
    LET name == cellLineData.cellline
        fresh == addSgRNA(NewCellLineView([name |-> name,
                                           condition |-> cellLineData.condition]),
                          [id |-> Or(cellLineData.id, cellLineData.rowid),
                           sequence |-> cellLineData.sequence,
                           start |-> cellLineData.start, end |-> cellLineData.end,
                           strand |-> cellLineData.strand, log2fc |-> cellLineData.log2fc])
        i == CellLineIndex(gv.cellLines, name)
    IN [gv EXCEPT !.cellLines = IF i = 0 THEN Append(@, fresh) ELSE [@ EXCEPT ![i] = fresh]]

\* GeneView.addCellLine
addCellLine(gv, cellLineData) ==
    AddUnder(gv, cellLineData.cellline, cellLineData,
             [id |-> Or(cellLineData.id, cellLineData.rowid),
              sequence |-> cellLineData.sequence,
              start |-> cellLineData.start, end |-> cellLineData.end,
              strand |-> cellLineData.strand, log2fc |-> cellLineData.log2fc])

RECURSIVE SumLengths(_)
SumLengths(cellLines) ==
    IF cellLines = <<>> THEN 0
    ELSE Len(Head(cellLines).sgRNAs) + SumLengths(Tail(cellLines))

getTotalSgRNACount(gv) == SumLengths(gv.cellLines)

RECURSIVE Flatten(_)
Flatten(seqs) == IF seqs = <<>> THEN <<>> ELSE Head(seqs) \o Flatten(Tail(seqs))

\* the elements of a sequence that satisfy Array.prototype.filter's test,
\* here: the parsed scores that are numbers
RECURSIVE ValidEffects(_)
ValidEffects(sgRNAs) ==
    IF sgRNAs = <<>> THEN <<>>
    ELSE LET e == parseFloat(Head(sgRNAs).log2fc)
         IN (IF e.t = "nan" THEN <<>> ELSE <<e>>) \o ValidEffects(Tail(sgRNAs))

RECURSIVE SumOf(_)
SumOf(nums) == IF nums = <<>> THEN Num(0) ELSE Add(Head(nums), SumOf(Tail(nums)))

\* the first score in place of the mean
MeanOfFirst(nums) == IF Len(nums) > 0 THEN nums[1] ELSE Null

\* total / count, null when nothing was counted
Mean(nums) ==
    IF Len(nums) > 0 THEN Rat(SumOf(nums).n, SumOf(nums).d * Len(nums)) ELSE Null

\* CellLineView.getAverageEffect
CellLineAverageEffect(cl) == Mean(ValidEffects(cl.sgRNAs))

\* GeneView.getAverageEffect
GeneAverageEffect(gv) ==
    Mean(ValidEffects(Flatten([i \in 1..Len(gv.cellLines) |-> gv.cellLines[i].sgRNAs])))

CellLineViewToJSON(cl) ==
    [name |-> cl.name,
     condition |-> cl.condition,
     sgRNACount |-> Len(cl.sgRNAs),
     averageEffect |-> CellLineAverageEffect(cl),
     sgRNAs |-> [i \in 1..Len(cl.sgRNAs) |-> SgRNAViewToJSON(cl.sgRNAs[i])]]

GeneViewToJSON(gv) ==
    [symbol |-> gv.symbol,
     totalSgRNAs |-> getTotalSgRNACount(gv),
     averageEffect |-> GeneAverageEffect(gv),
     cellLines |-> [i \in 1..Len(gv.cellLines) |-> CellLineViewToJSON(gv.cellLines[i])]]

RECURSIVE AddRows(_, _)
AddRows(gv, rows) ==
    IF rows = <<>> THEN gv
    ELSE AddRows(addCellLine(gv, [Head(rows) EXCEPT !.id = Or(Head(rows).rowid, Head(rows).id)]),
                 Tail(rows))

\* GeneView.fromDbRows: null for no rows
fromDbRows(rows) ==
    IF Len(rows) = 0 THEN Null ELSE AddRows(NewGeneView(rows[1]), rows)

----------------------------------------------------------------------------
(* unnamed/part_006: the GeneView of the relational variant keeps its cell  *)
(* lines in an array and is filled from the JSON of a Gene                   *)

addCellLineArray(gv, cellLineData) ==
    AddUnder(gv, Or(cellLineData.cellline, cellLineData.name), cellLineData,
             [id |-> Or(Or(cellLineData.id, cellLineData.rowid), cellLineData.sgrna_id),
              sequence |-> cellLineData.sequence,
              start |-> Or(cellLineData.start, cellLineData.start_pos),
              end |-> Or(cellLineData.end, cellLineData.end_pos),
              strand |-> cellLineData.strand, log2fc |-> cellLineData.log2fc])

\* { cellline: exp.cellline || exp.name, condition: exp.condition, ...sgRNA }
SpreadSgRNA(exp, sgRNA) ==
    [cellline |-> Or(exp.cellline, exp.name), name |-> Undef, condition |-> exp.condition,
     id |-> sgRNA.id, rowid |-> Undef, sgrna_id |-> Undef, sequence |-> sgRNA.sequence,
     start |-> sgRNA.start, start_pos |-> Undef, end |-> sgRNA.end, end_pos |-> Undef,
     strand |-> sgRNA.strand, log2fc |-> sgRNA.log2fc]

RECURSIVE AddSgRNAsOf(_, _, _)
AddSgRNAsOf(gv, exp, sgRNAs) ==
    IF sgRNAs = <<>> THEN gv
    ELSE AddSgRNAsOf(addCellLineArray(gv, SpreadSgRNA(exp, Head(sgRNAs))), exp, Tail(sgRNAs))

RECURSIVE AddExperiments(_, _)
AddExperiments(gv, experiments) ==
    IF experiments = <<>> THEN gv
    ELSE AddExperiments(AddSgRNAsOf(gv, Head(experiments), Head(experiments).sgRNAs),
                        Tail(experiments))

fromGeneModel(geneData) == AddExperiments(NewGeneView(geneData), geneData.experiments)

----------------------------------------------------------------------------
(* model/Gene.js: Gene.loadWithRelations groups the joined rows of one gene *)
(* into experiments, and Gene.toJSON serialises them                         *)

\* `${row.cellline}_${row.condition || 'default'}`
expKey(row) ==
    ToText(row.cellline) \o <<"_">> \o ToText(Or(row.condition, Str(<<"default">>)))

ExperimentIndex(experiments, key) ==
    IF \E i \in 1..Len(experiments) : experiments[i].key = key
    THEN CHOOSE i \in 1..Len(experiments) : experiments[i].key = key
    ELSE 0

AddToExperiment(experiments, row) ==
    LET known == ExperimentIndex(experiments, expKey(row)) # 0
        exps == IF known THEN experiments
                ELSE Append(experiments,
                            [key |-> expKey(row), name |-> row.cellline, cellline |-> Undef,
                             condition |-> row.condition, sgRNAs |-> <<>>])
        i == ExperimentIndex(exps, expKey(row))
    IN [exps EXCEPT ![i].sgRNAs =
            Append(@, [sgrna_id |-> row.sgrna_id, id |-> Undef, sequence |-> row.sequence,
                       start_pos |-> row.start_pos, start |-> Undef,
                       end_pos |-> row.end_pos, end |-> Undef,
                       strand |-> row.strand, log2fc |-> row.log2fc])]

RECURSIVE GroupExperiments(_, _)
GroupExperiments(experiments, rows) ==
    IF rows = <<>> THEN experiments
    ELSE GroupExperiments(AddToExperiment(experiments, Head(rows)), Tail(rows))

\* the mean of the parsed scores of an experiment, null without any
ExperimentAverage(exp) == Mean(ValidEffects(exp.sgRNAs))

\* Gene.loadWithRelations, the callback of the query: null for no rows
loadWithRelations(rows) ==
    IF Len(rows) = 0 THEN Null
    ELSE LET exps == GroupExperiments(<<>>, rows)
         IN [symbol |-> rows[1].symbol,
             experiments |-> [i \in 1..Len(exps) |->
                                [name |-> exps[i].name, cellline |-> exps[i].cellline,
                                 condition |-> exps[i].condition,
                                 sgRNAs |-> exps[i].sgRNAs,
                                 averageEffect |-> ExperimentAverage(exps[i])]]]

\* the smallest (largest) of the parsed coordinates, null without any
RECURSIVE Extreme(_, _, _)
Extreme(values, best, smallest) ==
    IF values = <<>> THEN best
    ELSE LET v == parseInt(Head(values))
             better == \/ best = Null
                       \/ IF smallest THEN v.n < best.n ELSE v.n > best.n
         IN Extreme(Tail(values), IF v.t # "nan" /\ better THEN v ELSE best, smallest)

\* Gene._calculateStats
_calculateStats(gene) ==
    LET all == Flatten([i \in 1..Len(gene.experiments) |-> gene.experiments[i].sgRNAs])
    IN [totalSgRNAs |-> Len(all),
        averageEffect |-> Mean(ValidEffects(all)),
        genomicRange |->
            [start |-> Extreme([i \in 1..Len(all) |-> Or(all[i].start_pos, all[i].start)],
                               Null, TRUE),
             end |-> Extreme([i \in 1..Len(all) |-> Or(all[i].end_pos, all[i].end)],
                             Null, FALSE)]]

\* Gene.toJSON
GeneToJSON(gene) ==
    [symbol |-> gene.symbol,
     totalSgRNAs |-> _calculateStats(gene).totalSgRNAs,
     averageEffect |-> _calculateStats(gene).averageEffect,
     experimentCount |-> Len(gene.experiments),
     genomicRange |-> _calculateStats(gene).genomicRange,
     experiments |->
        [i \in 1..Len(gene.experiments) |->
            LET exp == gene.experiments[i]
            IN [cellline |-> Or(exp.name, exp.cellline),
                name |-> Undef,
                condition |-> exp.condition,
                sgRNACount |-> Len(exp.sgRNAs),
                averageEffect |-> exp.averageEffect,
                sgRNAs |-> [j \in 1..Len(exp.sgRNAs) |-> GeneSgRNAToJSON(exp.sgRNAs[j])]]]]

----------------------------------------------------------------------------
(* server.js and its variants: the request handlers.  A handler's result    *)
(* holds the SQL texts it sent to the storage engine and what it rendered    *)
(* from the rows the engine answered with.                                   *)

Letters ==
    {"A", "B", "C", "D", "E", "F", "G", "H", "I", "J", "K", "L", "M", "N", "O", "P", "Q",
     "R", "S", "T", "U", "V", "W", "X", "Y", "Z", "a", "b", "c", "d", "e", "f", "g", "h",
     "i", "j", "k", "l", "m", "n", "o", "p", "q", "r", "s", "t", "u", "v", "w", "x", "y",
     "z"}

\* /^[A-Z][A-Z0-9_-]*$/i.test(s)
IsSymbolLike(s) ==
    /\ Len(s) >= 1
    /\ s[1] \in Letters
    /\ \A i \in 2..Len(s) : s[i] \in Letters \cup Digits \cup {"_", "-"}

\* server.js: a query of two characters or more that looks like a symbol
shouldUseGeneView(searchQuery) ==
    /\ Truthy(searchQuery)
    /\ Len(searchQuery.s) >= 2
    /\ IsSymbolLike(Trim(searchQuery.s))

\* unnamed/part_000: any query that is not blank
shouldUseGeneViewNonBlank(searchQuery) ==
    Truthy(searchQuery) /\ Len(Trim(searchQuery.s)) > 0

\* Math.ceil of a number
Ceil(v) == Num(-((-v.n) \div v.d))

Min(a, b) == IF a < b THEN a ELSE b
Max(a, b) == IF a > b THEN a ELSE b

\* Array.prototype.slice(from, to): a negative index counts from the end
Slice(s, from, to) ==
    LET k == IF from < 0 THEN Max(Len(s) + from, 0) ELSE Min(from, Len(s))
        f == IF to < 0 THEN Max(Len(s) + to, 0) ELSE Min(to, Len(s))
    IN SubSeq(s, k + 1, f)

\* an offset that skips the page itself
OffsetFromPage(page, limit) == Rat(page.n * limit.n, page.d * limit.d)

\* (page - 1) * limit of getGeneViewResults
PageOffset(page, limit) == Rat((page.n - page.d) * limit.n, page.d * limit.d)

\* a lookup that never finds the group of a symbol
GroupIndexNone(groups, symbol) == 0

GroupIndex(groups, symbol) ==
    IF \E i \in 1..Len(groups) : groups[i][1].symbol = symbol
    THEN CHOOSE i \in 1..Len(groups) : groups[i][1].symbol = symbol
    ELSE 0

\* the rows of each symbol, the symbols in the order they are first seen
RECURSIVE GroupBySymbol(_, _)
GroupBySymbol(groups, rows) ==
    IF rows = <<>> THEN groups
    ELSE LET i == GroupIndex(groups, Head(rows).symbol)
         IN GroupBySymbol(IF i = 0 THEN Append(groups, <<Head(rows)>>)
                          ELSE [groups EXCEPT ![i] = Append(@, Head(rows))],
                          Tail(rows))

\* the text of geneSearchQuery: sortBy and sortOrder are part of the template
GeneSearchQuery(sortBy, sortOrder) ==
    <<"SELECT rowid, * FROM genome_crispr", " WHERE ", "symbol LIKE ", "?",
      " OR ensg LIKE ", "?", " ORDER BY ", "symbol, cellline, ">>
    \o ToText(sortBy) \o <<" ">> \o ToText(sortOrder)

\* `%${searchQuery}%` of getGeneViewResults: the query is not trimmed
SearchPattern(searchQuery) == Str(<<"%">> \o ToText(searchQuery) \o <<"%">>)

\* getGeneViewResults, allRows the answer of the storage engine
getGeneViewResults(searchQuery, page, limit, sortBy, sortOrder, allRows) ==
    LET geneGroups == GroupBySymbol(<<>>, allRows)
        geneViews == [i \in 1..Len(geneGroups) |-> fromDbRows(geneGroups[i])]
        totalGenes == Len(geneViews)
        totalPages == Ceil(Rat(totalGenes * limit.d, limit.n))
        offset == PageOffset(page, limit)
        paginatedGenes == Slice(geneViews, offset.n, offset.n + limit.n)
    IN [raised |-> FALSE,
        status |-> "ok",
        sql |-> <<GeneSearchQuery(sortBy, sortOrder)>>,
        params |-> <<SearchPattern(searchQuery), SearchPattern(searchQuery)>>,
        results |-> [i \in 1..Len(paginatedGenes) |-> GeneViewToJSON(paginatedGenes[i])],
        totalRows |-> Num(totalGenes),
        totalPages |-> totalPages,
        isGeneView |-> TRUE]

\* what is rendered without a search
EmptyPage ==
    [raised |-> FALSE, status |-> "ok", sql |-> <<>>, params |-> <<>>, results |-> <<>>,
     totalRows |-> Num(0), totalPages |-> Num(0), isGeneView |-> FALSE]

\* an exception that leaves the handler, or a response without a query
Failure(status) == [EmptyPage EXCEPT !.raised = (status = "raised"), !.status = status]

\* the flat search: the count query, then the page query, the rows formatted
FlatResults(built, limit, rows) ==
    IF built.raised THEN Failure("raised")
    ELSE [raised |-> FALSE,
          status |-> "ok",
          sql |-> <<built.countQuery, built.query>>,
          params |-> built.params,
          results |-> [i \in 1..Len(rows) |-> formatGeneFromRow(rows[i])],
          totalRows |-> Num(Len(rows)),
          totalPages |-> Ceil(Rat(Len(rows) * limit.d, limit.n)),
          isGeneView |-> FALSE]

\* server.js, app.get('/')
GetIndexResponse(q, options, rows) ==
    LET searchQuery == Or(q.query, Str(<<>>))
        page == Or(parseInt(options.page), Num(1))
        limit == Or(parseInt(options.limit), Num(10))
        sortBy == Or(options.sortBy, Str(<<"rowid">>))
        sortOrder == Or(options.sortOrder, Str(<<"ASC">>))
    IN IF ~Truthy(searchQuery) THEN EmptyPage
       ELSE IF shouldUseGeneView(searchQuery)
       THEN getGeneViewResults(searchQuery, page, limit, sortBy, sortOrder, rows)
       ELSE FlatResults(buildSearchQuery(q, [page |-> page, limit |-> limit,
                                              sortBy |-> sortBy, sortOrder |-> sortOrder]),
                        limit, rows)

\* utils/responseHelpers.js
parseQueryParams(q, options) ==
    [searchQuery |-> Or(q.query, Str(<<>>)),
     strand |-> Or(q.strand, Str(<<>>)),
     effect |-> Or(q.effect, Str(<<>>)),
     page |-> Or(parseInt(options.page), Num(1)),
     limit |-> LET l == Or(parseInt(options.limit), Num(25))
               IN IF l.n < 1000 THEN l ELSE Num(1000),
     sortBy |-> Or(options.sortBy, Str(<<"rowid">>)),
     sortOrder |-> IF options.sortOrder.t = "str"
                      /\ toUpperCase(options.sortOrder.s) = <<"DESC">>
                   THEN Str(<<"DESC">>) ELSE Str(<<"ASC">>)]

\* sortOrder?.toUpperCase() throws for a value that is neither a string nor
\* null nor undefined
OrderCallThrows(sortOrder) == sortOrder.t \notin {"str", "null", "undefined"}

\* unnamed/part_000, app.get('/')
GetIndexParsedResponse(q, options, rows) ==
    LET params == parseQueryParams(q, options)
    IN IF OrderCallThrows(options.sortOrder) THEN Failure("raised")
       ELSE IF ~Truthy(params.searchQuery) THEN EmptyPage
       ELSE IF shouldUseGeneViewNonBlank(params.searchQuery)
       THEN getGeneViewResults(params.searchQuery, params.page, params.limit,
                               params.sortBy, params.sortOrder, rows)
       ELSE FlatResults(buildSearchQuery(q, [page |-> params.page, limit |-> params.limit,
                                              sortBy |-> params.sortBy,
                                              sortOrder |-> params.sortOrder]),
                        params.limit, rows)

\* the list of buildSearchQuery in place of the list of the API
validateSortByBuilder(sortBy) ==
    sortBy.t = "str" /\ Len(sortBy.s) = 1 /\ sortBy.s[1] \in validSortColumns

\* validateSortBy, and the same list in app.get('/api/records')
validateSortBy(sortBy) ==
    sortBy.t = "str" /\ Len(sortBy.s) = 1 /\ sortBy.s[1] \in allowedFields

\* the filters the API hands to buildSearchQuery: query, strand and effect
ApiFilters(q) ==
    [x \in Fields |-> IF x \in {"query", "strand", "effect"}
                      THEN Or(q[x], Str(<<>>)) ELSE Undef]

\* server.js, app.get('/api/records'): any exception is answered with 500
GetApiRecordsResponse(q, options, rows) ==
    LET params == parseQueryParams(q, options)
        flat == FlatResults(buildSearchQuery(ApiFilters(q),
                                [page |-> params.page, limit |-> params.limit,
                                 sortBy |-> params.sortBy, sortOrder |-> params.sortOrder]),
                            params.limit, rows)
    IN IF OrderCallThrows(options.sortOrder) THEN Failure("500")
       ELSE IF ~validateSortBy(params.sortBy) THEN Failure("400")
       ELSE IF flat.raised THEN Failure("500")
       ELSE flat

\* server.js, app.get('/api/export'): the order is fixed
GetApiExportResponse(q, options, rows) ==
    LET l == Or(parseInt(options.limit), Num(10000))
        limit == IF l.n < 50000 THEN l ELSE Num(50000)
        built == buildSearchQuery(ApiFilters(q),
                                  [page |-> Num(1), limit |-> limit,
                                   sortBy |-> Str(<<"rowid">>), sortOrder |-> Str(<<"ASC">>)])
    IN IF built.raised THEN Failure("500")
       ELSE [FlatResults(built, limit, rows) EXCEPT !.sql = <<built.query>>]

\* model/Gene.js, the whitelist of Gene.searchGenes
allowedSortFields == {"symbol", "chr", "total_sgrnas", "avg_log2fc"}

\* the text of geneQuery: safeSortBy and sortOrder are part of the template
GeneQuery(safeSortBy, sortOrder) ==
    <<"SELECT g.gene_id, g.symbol, g.ensg, g.chr, COUNT(s.sgrna_id) as total_sgrnas FROM genes g JOIN experiments e JOIN cell_lines cl JOIN sgrnas s",
      " WHERE ", "g.symbol LIKE ", "?", " OR g.ensg LIKE ", "?",
      " GROUP BY g.gene_id, g.symbol, g.ensg, g.chr", " ORDER BY ">>
    \o ToText(safeSortBy) \o <<" ">> \o ToText(sortOrder)
    \o <<" LIMIT ", "?", " OFFSET ", "?">>

GeneCountQuery ==
    <<"SELECT COUNT(DISTINCT g.gene_id) as total FROM genes g", " WHERE ",
      "g.symbol LIKE ", "?", " OR g.ensg LIKE ", "?">>

\* the rows the storage engine answers geneQuery with: one for each gene
GeneRowsOf(rows) ==
    LET groups == GroupBySymbol(<<>>, rows)
    IN [i \in 1..Len(groups) |->
           [symbol |-> groups[i][1].symbol,
            total_sgrnas |-> Num(Len(groups[i])),
            cell_line_count |->
                Num(Cardinality({groups[i][j].cellline : j \in 1..Len(groups[i])}))]]

\* Gene.searchGenes with the options the relational server passes
searchGenes(searchTerm, options, rows) ==
    LET page == Default(options.page, Num(1))
        limit == Default(options.limit, Num(25))
        sortBy == Default(options.sortBy, Str(<<"symbol">>))
        sortOrder == Default(options.sortOrder, Str(<<"ASC">>))
        offset == Offset(page, limit)
        searchPattern == Wildcard(searchTerm.s)
        safeSortBy == IF sortBy.t = "str" /\ Len(sortBy.s) = 1
                         /\ sortBy.s[1] \in allowedSortFields
                      THEN sortBy ELSE Str(<<"symbol">>)
        geneRows == GeneRowsOf(rows)
    IN [raised |-> FALSE,
        status |-> "ok",
        sql |-> <<GeneCountQuery, GeneQuery(safeSortBy, sortOrder)>>,
        params |-> <<searchPattern, searchPattern, limit, offset>>,
        results |-> [i \in 1..Len(geneRows) |->
                        [symbol |-> geneRows[i].symbol,
                         totalSgRNAs |-> geneRows[i].total_sgrnas,
                         cellLineCount |-> geneRows[i].cell_line_count]],
        totalRows |-> Num(Len(geneRows)),
        totalPages |-> Ceil(Rat(Len(geneRows) * limit.d, limit.n)),
        isGeneView |-> TRUE]

\* unnamed/part_003, app.get('/'): the gene view is the relational search
GetIndexRelationalResponse(q, options, rows) ==
    LET params == parseQueryParams(q, options)
    IN IF OrderCallThrows(options.sortOrder) THEN Failure("raised")
       ELSE IF ~Truthy(params.searchQuery) THEN EmptyPage
       ELSE IF shouldUseGeneViewNonBlank(params.searchQuery)
       THEN searchGenes(params.searchQuery,
                        [page |-> params.page, limit |-> params.limit,
                         sortBy |-> params.sortBy, sortOrder |-> params.sortOrder], rows)
       ELSE FlatResults(buildSearchQuery(q, [page |-> params.page, limit |-> params.limit,
                                              sortBy |-> params.sortBy,
                                              sortOrder |-> params.sortOrder]),
                        params.limit, rows)

----------------------------------------------------------------------------
(* The comparison fragments as the storage engine evaluates them on a row:  *)
(* 'CAST(<column> AS REAL|INTEGER) <comparator> ?' with the bound value      *)

\* CAST(v AS REAL): NULL stays NULL, text gives its numeric prefix or 0
CastReal(v) ==
    CASE v.t = "num" -> v
      [] v.t = "str" -> IF ParsePrefix(v.s).t = "num" THEN ParsePrefix(v.s) ELSE Num(0)
      [] OTHER -> Null

Less(a, b) == a.n * b.d < b.n * a.d

\* does the row satisfy the fragment with value bound to its placeholder; a
\* comparison with NULL selects nothing
Satisfies(row, fragment, value) ==
    LET x == CastReal(row[fragment[2]])
    IN /\ IsNum(x) /\ IsNum(value)
       /\ CASE fragment[4] = " > " -> Less(value, x)
            [] fragment[4] = " < " -> Less(x, value)
            [] fragment[4] = " >= " -> ~Less(x, value)
            [] fragment[4] = " <= " -> ~Less(value, x)

----------------------------------------------------------------------------
(* The inputs of the builder *)

\* at most this many filter fields are present in one input
MaxFields == 2

TextFields == {"query", "chr", "cellline", "condition", "screentype", "cas", "pubmed"}
RangeFields == {"startPos", "endPos", "minLog2fc", "maxLog2fc"}
LegacyFields == {"query", "chr", "strand", "effect", "cellline"}

\* the values a present field takes: empty, blank, text to trim, a number
\* (Express hands over strings; a direct caller may pass anything)
ValuesFor(f) ==
    {Str(<<>>), Str(<<" ">>), Num(3)} \cup
    CASE f \in TextFields -> {Str(<<" ", "a", " ">>), Str(<<"a">>), Null}
      [] f = "strand" -> {Str(<<"+">>), Str(<<"-">>), Str(<<" ", "+">>)}
      [] f = "effect" -> {Str(<<"up">>), Str(<<"down">>), Str(<<"a">>)}
      [] f \in RangeFields ->
            {Str(<<"1", "2">>), Str(<<" ", "7">>), Str(<<"-", "1">>), Str(<<"1", "a">>),
             Num(0)}

AllValues == UNION {ValuesFor(f) : f \in Fields}

FilterInput(S, f) == [x \in Fields |-> IF x \in S THEN f[x] ELSE Undef]

FilterInputsOver(fields, k) ==
    UNION {{FilterInput(S, f) :
                f \in {g \in [S -> AllValues] : \A x \in S : g[x] \in ValuesFor(x)}} :
           S \in {T \in SUBSET fields : Cardinality(T) <= k}}

FilterInputs == FilterInputsOver(Fields, MaxFields)

NoOptions == [page |-> Undef, limit |-> Undef, sortBy |-> Undef, sortOrder |-> Undef]

SortByValues ==
    {Undef, Null, Num(1), Str(<<>>), Str(<<"rowid">>), Str(<<"start">>),
     Str(<<"log2fc">>), Str(<<"condition">>), Str(<<"pubmed">>),
     Str(<<"start", ";", "DROP TABLE genes">>)}

SortOrderValues ==
    {Undef, Null, Num(1), Str(<<>>), Str(<<"ASC">>), Str(<<"DESC">>), Str(<<"desc">>),
     Str(<<"Desc">>), Str(<<"a">>), Str(<<"ASC", ";", "DROP TABLE genes">>)}

PageValues == {Undef, Num(1), Num(2)}
LimitValues == {Undef, Num(10)}

OptionInputs ==
    [page : PageValues, limit : LimitValues, sortBy : SortByValues,
     sortOrder : SortOrderValues]

\* the filters the options are combined with: none, one that binds six
\* values, one that throws
BaseFilters ==
    {FilterInput({}, <<>>),
     FilterInput({"query", "strand"}, [x \in {"query", "strand"} |->
                     IF x = "query" THEN Str(<<"a">>) ELSE Str(<<"+">>)]),
     FilterInput({"chr"}, [x \in {"chr"} |-> Num(3)])}

NoRows == <<>>

\* a row of the genome_crispr table or view; a flat row has no id property
Row(rowid, symbol, cellline, condition, start, end, sequence, log2fc) ==
    [rowid |-> rowid, id |-> Undef, symbol |-> symbol, cellline |-> cellline,
     condition |-> condition, start |-> start, end |-> end, strand |-> Str(<<"+">>),
     sequence |-> sequence, log2fc |-> log2fc]

\* the columns hold numbers in the normalised schema and text in the flat
\* import, and a value may be missing
StartValues == {Num(0), Num(100), Str(<<"1", "0", "0">>), Str(<<"a">>), Null}
EndValues == {Num(200), Num(201), Num(50), Str(<<"2", "0", "0">>), Str(<<"a">>), Undef}
Log2fcValues ==
    {Num(0), Num(1), Num(-1), Str(<<"0">>), Str(<<"1">>), Str(<<"a">>), Str(<<>>), Null,
     Undef}
SequenceValues == {Str(<<"A", "C", "G", "T">>), Str(<<>>), Null, Num(5)}

SingleRows ==
    {Row(Num(1), Str(<<"BRCA1">>), Str(<<"HeLa">>), Str(<<"viability">>), s, e, sq, l) :
        s \in StartValues, e \in EndValues, sq \in SequenceValues, l \in Log2fcValues}

\* the rows of one gene as the storage engine returns them: ordered by cell
\* line, at most MaxRows of them, the row id of a row its position
MaxRows == 3
CellLines == <<Str(<<"HeLa">>), Str(<<"K562">>)>>
Conditions == {Str(<<"viability">>), Str(<<"resistance">>), Null}
GroupLog2fc == {Num(1), Num(-2), Null}

GeneRows(symbol, n) ==
    {[i \in 1..n |-> Row(Num(i), symbol, CellLines[c[i]], cd[i], Num(100), Num(200),
                         Str(<<"A", "C", "G", "T">>), l[i])] :
        c \in {f \in [1..n -> 1..Len(CellLines)] : \A i \in 1..n - 1 : f[i] <= f[i + 1]},
        cd \in [1..n -> Conditions],
        l \in [1..n -> GroupLog2fc]}

RowGroups == UNION {GeneRows(Str(<<"BRCA1">>), n) : n \in 0..MaxRows}

\* the rows of a search as the storage engine returns them: ordered by
\* symbol, at most MaxRows rows of at most MaxGenes genes
MaxGenes == 3
Symbols == [i \in 1..MaxGenes |-> Str(<<"BR", "CA", NatToAtoms(i)[1]>>)]

SearchRows(n) ==
    {[i \in 1..n |-> Row(Num(i), Symbols[g[i]], CellLines[1], Str(<<"viability">>),
                         Num(100), Num(200), Str(<<"A", "C", "G", "T">>), Num(1))] :
        g \in {f \in [1..n -> 1..MaxGenes] : \A i \in 1..n - 1 : f[i] <= f[i + 1]}}

SearchTables == UNION {SearchRows(n) : n \in 0..MaxRows}

\* page and limit as the handlers pass them on: integers other than 0
MaxPage == 4
MaxLimit == 3
PageNumbers == {Num(-1)} \cup {Num(p) : p \in 1..MaxPage}
LimitNumbers == {Num(-1)} \cup {Num(l) : l \in 1..MaxLimit}

PagingOptions ==
    [page : PageNumbers, limit : LimitNumbers, sortBy : {Str(<<"rowid">>)},
     sortOrder : {Str(<<"ASC">>)}]

\* the query string of a request: every value is a string or absent
RequestQueries == {Undef, Str(<<"B", "R">>), Str(<<"1", "7">>), Str(<<" ">>)}
RequestSortBy ==
    {Undef, Str(<<"start">>), Str(<<"condition">>), Str(<<"symbol">>), Str(<<"pubmed">>),
     Str(<<"rowid", ";", "DROP TABLE genes">>)}
RequestSortOrder ==
    {Undef, Str(<<"DESC">>), Str(<<"desc">>), Str(<<"ASC", ";", "DROP TABLE genes">>)}
RequestPages == {Undef, Str(<<"2">>), Str(<<"0">>), Str(<<"-", "1">>)}
RequestLimits ==
    {Undef, Str(<<"1">>), Str(<<"0">>), Str(<<"-", "1">>), Str(<<"a">>),
     Str(<<"5", "0", "0", "0", "0">>), Str(<<"1", "0", "0", "0", "0", "0">>)}

\* a request varies its sort directives or its paging
RequestOptions ==
    [page : {Undef}, limit : {Undef}, sortBy : RequestSortBy, sortOrder : RequestSortOrder]
    \cup [page : RequestPages, limit : RequestLimits, sortBy : {Undef, Str(<<"start">>)},
          sortOrder : {Undef}]

RequestFilters == {FilterInput({"query"}, [x \in {"query"} |-> v]) : v \in RequestQueries}

RequestTables == {rows \in SearchTables : Len(rows) = MaxRows}

Arg(kind, q, options, rows) ==
    [kind |-> kind, q |-> q, options |-> options, rows |-> rows]

----------------------------------------------------------------------------
(* The calls *)

ParseSearchQuery ==
    /\ op = "none" /\ arg.kind = "filter"
    /\ op' = "parseSearchQuery"
    /\ out' = parseSearchQuery(arg.q)
    /\ UNCHANGED arg

ParseSearchQueryLegacy ==
    /\ op = "none" /\ arg.kind = "filter"
    /\ op' = "parseSearchQueryLegacy"
    /\ out' = parseSearchQueryLegacy(arg.q)
    /\ UNCHANGED arg

BuildSearchQuery ==
    /\ op = "none" /\ arg.kind \in {"filter", "build"}
    /\ op' = "buildSearchQuery"
    /\ out' = buildSearchQuery(arg.q, arg.options)
    /\ UNCHANGED arg

BuildSearchQueryLegacy ==
    /\ op = "none" /\ arg.kind = "build"
    /\ op' = "buildSearchQueryLegacy"
    /\ out' = buildSearchQueryLegacy(arg.q, arg.options)
    /\ UNCHANGED arg

\* the data addCellLine hands to new SgRNAView for a row of fromDbRows
SgRNAData(row) ==
    [id |-> Or(Or(row.rowid, row.id), row.rowid), sequence |-> row.sequence,
     start |-> row.start, end |-> row.end, strand |-> row.strand, log2fc |-> row.log2fc]

FormatFlat ==
    /\ op = "none" /\ arg.kind = "row"
    /\ op' = "Gene.fromDbRow"
    /\ out' = formatGeneFromRow(arg.rows[1])
    /\ UNCHANGED arg

FormatSgRNA ==
    /\ op = "none" /\ arg.kind = "row"
    /\ op' = "SgRNAView.toJSON"
    /\ out' = SgRNAViewToJSON(NewSgRNAView(SgRNAData(arg.rows[1])))
    /\ UNCHANGED arg

FormatRelational ==
    /\ op = "none" /\ arg.kind = "row"
    /\ op' = "Gene.toJSON"
    /\ out' = GeneSgRNAToJSON(RelationalRow(arg.rows[1]))
    /\ UNCHANGED arg

FromDbRows ==
    /\ op = "none" /\ arg.kind = "group"
    /\ op' = "GeneView.fromDbRows"
    /\ out' = IF fromDbRows(arg.rows) = Null THEN Null
              ELSE GeneViewToJSON(fromDbRows(arg.rows))
    /\ UNCHANGED arg

LoadWithRelations ==
    /\ op = "none" /\ arg.kind = "group"
    /\ op' = "Gene.loadWithRelations"
    /\ out' = LET gene == loadWithRelations([i \in 1..Len(arg.rows) |-> RelationalRow(arg.rows[i])])
              IN IF gene = Null THEN Null ELSE GeneToJSON(gene)
    /\ UNCHANGED arg

\* GET /gene/:symbol of the relational server: 404 without a gene
FromGeneModel ==
    /\ op = "none" /\ arg.kind = "group"
    /\ op' = "GeneView.fromGeneModel"
    /\ out' = LET gene == loadWithRelations([i \in 1..Len(arg.rows) |-> RelationalRow(arg.rows[i])])
              IN IF gene = Null THEN Null
                 ELSE GeneViewToJSON(fromGeneModel(GeneToJSON(gene)))
    /\ UNCHANGED arg

GetGeneViewResults ==
    /\ op = "none" /\ arg.kind = "page"
    /\ op' = "getGeneViewResults"
    /\ out' = getGeneViewResults(Str(<<"B", "R">>), arg.options.page, arg.options.limit,
                                 arg.options.sortBy, arg.options.sortOrder, arg.rows)
    /\ UNCHANGED arg

GetIndex ==
    /\ op = "none" /\ arg.kind = "request"
    /\ op' = "GET /"
    /\ out' = GetIndexResponse(arg.q, arg.options, arg.rows)
    /\ UNCHANGED arg

GetIndexParsed ==
    /\ op = "none" /\ arg.kind = "request"
    /\ op' = "GET / (parseQueryParams)"
    /\ out' = GetIndexParsedResponse(arg.q, arg.options, arg.rows)
    /\ UNCHANGED arg

GetIndexRelational ==
    /\ op = "none" /\ arg.kind = "request"
    /\ op' = "GET / (Gene.searchGenes)"
    /\ out' = GetIndexRelationalResponse(arg.q, arg.options, arg.rows)
    /\ UNCHANGED arg

GetApiRecords ==
    /\ op = "none" /\ arg.kind = "request"
    /\ op' = "GET /api/records"
    /\ out' = GetApiRecordsResponse(arg.q, arg.options, arg.rows)
    /\ UNCHANGED arg

GetApiExport ==
    /\ op = "none" /\ arg.kind = "request"
    /\ op' = "GET /api/export"
    /\ out' = GetApiExportResponse(arg.q, arg.options, arg.rows)
    /\ UNCHANGED arg

Init ==
    /\ op = "none"
    /\ out = <<>>
    /\ \/ \E q \in FilterInputs : arg = Arg("filter", q, NoOptions, NoRows)
       \/ \E q \in BaseFilters, o \in OptionInputs : arg = Arg("build", q, o, NoRows)
       \/ \E r \in SingleRows : arg = Arg("row", FilterInput({}, <<>>), NoOptions, <<r>>)
       \/ \E rs \in RowGroups : arg = Arg("group", FilterInput({}, <<>>), NoOptions, rs)
       \/ \E rs \in SearchTables, o \in PagingOptions :
             arg = Arg("page", FilterInput({}, <<>>), o, rs)
       \/ \E q \in RequestFilters, o \in RequestOptions, rs \in RequestTables :
             arg = Arg("request", q, o, rs)

Next ==
    \/ ParseSearchQuery
    \/ ParseSearchQueryLegacy
    \/ BuildSearchQuery
    \/ BuildSearchQueryLegacy
    \/ FormatFlat
    \/ FormatSgRNA
    \/ FormatRelational
    \/ FromDbRows
    \/ LoadWithRelations
    \/ FromGeneModel
    \/ GetGeneViewResults
    \/ GetIndex
    \/ GetIndexParsed
    \/ GetIndexRelational
    \/ GetApiRecords
    \/ GetApiExport

Spec == Init /\ [][Next]_vars

----------------------------------------------------------------------------
(* Reading SQL text back *)

\* the positions of the placeholder character in a text
Placeholders(text) == {i \in 1..Len(text) : text[i] = "?"}

\* the k-th smallest element of a finite set of numbers
RECURSIVE Nth(_, _)
Nth(S, k) ==
    LET m == CHOOSE x \in S : \A y \in S : x <= y
    IN IF k = 1 THEN m ELSE Nth(S \ {m}, k - 1)

ColumnNames ==
    {"symbol", "ensg", "sequence", "cellline", "condition", "chr", "strand", "log2fc",
     "start", "end", "screentype", "cas", "pubmed"}

Comparators == {" LIKE ", " = ", " > ", " < ", " >= ", " <= "}

\* the last atom of text[1..pos] that belongs to set
LastIn(text, pos, set) ==
    text[CHOOSE i \in 1..pos : text[i] \in set /\ \A j \in (i + 1)..pos : text[j] \notin set]

\* is position pos inside the parenthesised free-text group
Grouped(text, pos) ==
    Cardinality({i \in 1..pos : text[i] = "("}) > Cardinality({i \in 1..pos : text[i] = ")"})

\* the value the filter input q asks to compare column col with
BoundValue(col, cmp, grouped, q) ==
    IF grouped THEN Str(<<"%">> \o Trim(q.query.s) \o <<"%">>)
    ELSE CASE col = "chr" -> Str(Trim(q.chr.s))
           [] col = "strand" -> q.strand
           [] col = "log2fc" /\ cmp \in {" > ", " < "} -> Num(0)
           [] col = "log2fc" /\ cmp = " >= " -> parseFloat(q.minLog2fc)
           [] col = "log2fc" /\ cmp = " <= " -> parseFloat(q.maxLog2fc)
           [] col = "start" -> parseInt(q.startPos)
           [] col = "end" -> parseInt(q.endPos)
           [] col = "pubmed" -> Str(Trim(q.pubmed.s))
           [] OTHER -> Str(<<"%">> \o Trim(q[col].s) \o <<"%">>)

\* params binds, in order, one value to every placeholder of text
BindsEvery(text, params, q) ==
    LET ph == Placeholders(text)
    IN /\ Cardinality(ph) = Len(params)
       /\ \A k \in 1..Len(params) :
            LET pos == Nth(ph, k)
            IN params[k] = BoundValue(LastIn(text, pos, ColumnNames),
                                      LastIn(text, pos, Comparators),
                                      Grouped(text, pos), q)

\* C1: for every filter input parseSearchQuery accepts, the WHERE clause has
\* as many placeholders as there are params, the i-th param is the value
\* bound for the i-th placeholder, and the free-text value is bound once per
\* column of its fragment; the same holds of both texts of buildSearchQuery.
C1_PlaceholdersMatchParams ==
    /\ (op \in {"parseSearchQuery", "parseSearchQueryLegacy"} /\ ~out.raised)
          => BindsEvery(buildWhereClause(out), out.params, arg.q)
    /\ (op \in {"buildSearchQuery", "buildSearchQueryLegacy"} /\ ~out.raised)
          => /\ BindsEvery(out.query, out.params, arg.q)
             /\ BindsEvery(out.countQuery, out.params, arg.q)

\* C1 witness: a free-text query and a strand filter, six values bound
C1_Witness ==
    /\ op = "parseSearchQuery"
    /\ ~out.raised
    /\ Truthy(arg.q.query) /\ Truthy(arg.q.strand)
    /\ Len(out.conditions) = 2
    /\ Len(out.params) = 6

\* the text between ORDER BY and LIMIT
OrderExpr(text) ==
    LET i == CHOOSE k \in 1..Len(text) : text[k] = " ORDER BY "
        j == CHOOSE k \in 1..Len(text) :
                 text[k] = " LIMIT " /\ \A m \in (k + 1)..Len(text) : text[m] # " LIMIT "
    IN SubSeq(text, i + 1, j - 1)

\* the sort field of a page query: the order expression without its last
\* two atoms, the blank and the direction
OrderField(text) == SubSeq(OrderExpr(text), 1, Len(OrderExpr(text)) - 2)

OrderDirection(text) == OrderExpr(text)[Len(OrderExpr(text))]

IsBuild == op \in {"buildSearchQuery", "buildSearchQueryLegacy"}

\* does the call throw for a reason other than its sort field
ThrowsWithoutSortBy ==
    \/ parseSearchQuery(arg.q).raised /\ op = "buildSearchQuery"
    \/ parseSearchQueryLegacy(arg.q).raised /\ op = "buildSearchQueryLegacy"
    \/ arg.options.sortOrder.t \notin {"str", "undefined"}

\* C2 as stated: a sortBy outside the ten listed fields is replaced by the
\* default field.
C2_Original ==
    (IsBuild /\ ~out.raised /\ arg.options.sortBy.t # "undefined"
       /\ ~(arg.options.sortBy.t = "str" /\ Len(arg.options.sortBy.s) = 1
            /\ arg.options.sortBy.s[1] \in
                 {"rowid", "chr", "start", "end", "strand", "symbol", "ensg", "log2fc",
                  "effect", "cellline"}))
    => OrderField(out.query) = <<"rowid">>

\* C2 amended: the whitelist of buildSearchQuery has an eleventh field,
\* condition; a sortBy outside those eleven is replaced by rowid, a listed one
\* is kept, an absent one is start, and no sortBy makes the call throw.
C2_SortFieldWhitelist ==
    IsBuild =>
      /\ out.raised <=> ThrowsWithoutSortBy
      /\ ~out.raised =>
           LET sortBy == arg.options.sortBy
               listed == /\ sortBy.t = "str"
                         /\ sortBy.s \in
                              {<<"rowid">>, <<"chr">>, <<"start">>, <<"end">>, <<"strand">>,
                               <<"symbol">>, <<"ensg">>, <<"log2fc">>, <<"effect">>,
                               <<"cellline">>, <<"condition">>}
           IN OrderField(out.query) =
                IF sortBy.t = "undefined" THEN <<"start">>
                ELSE IF listed THEN sortBy.s
                ELSE <<"rowid">>

\* C2 witness: an unlisted sortBy was given and rowid is in the text
C2_Witness ==
    /\ op = "buildSearchQuery"
    /\ ~out.raised
    /\ arg.options.sortBy = Str(<<"start", ";", "DROP TABLE genes">>)
    /\ OrderField(out.query) = <<"rowid">>

\* is the value an empty string or white space only
Blank(v) == v.t = "str" /\ Trim(v.s) = <<>>

\* C10 as stated: a field that is empty or white space only contributes no
\* fragment and no bound value, that is, the result is the one the input
\* without that field gives.
C10_BlankContributesNothing ==
    (op = "parseSearchQuery" /\ ~out.raised)
    => \A f \in Fields :
         Blank(arg.q[f]) => out = parseSearchQuery([arg.q EXCEPT ![f] = Undef])

----------------------------------------------------------------------------
(* The formatters *)

IsFormat == op \in {"Gene.fromDbRow", "SgRNAView.toJSON", "Gene.toJSON"}

\* C7 as stated: when start and end both parse as integers the entity has
\* length |end - start| + 1 and midpoint (start + end) / 2, and when one of
\* them does not parse both are null.
C7_LengthAndMidpoint ==
    IsFormat =>
      LET s == parseInt(arg.rows[1].start)
          e == parseInt(arg.rows[1].end)
      IN IF s.t = "num" /\ e.t = "num"
         THEN /\ out.length = Num(Abs(e.n - s.n) + 1)
              /\ out.midpoint = Rat(s.n + e.n, 2)
         ELSE /\ out.length = Null
              /\ out.midpoint = Null

\* C8 as stated: foldChange is 2^log2fc when log2fc parses as a number (1 for
\* log2fc = 0) and is null exactly when it does not.
C8_FoldChange ==
    IsFormat =>
      LET l == parseFloat(arg.rows[1].log2fc)
      IN IF l.t = "num"
         THEN out.foldChange = (IF l.n >= 0 THEN Num(2 ^ l.n) ELSE Rat(1, 2 ^ (-l.n)))
         ELSE out.foldChange = Null

\* C9 as stated: formatting returns an entity for every row, and each of
\* start, end and log2fc that does not parse is null in it.
C9_UnparsedIsNull ==
    IsFormat =>
      /\ parseInt(arg.rows[1].start).t = "nan" => out.start = Null
      /\ parseInt(arg.rows[1].end).t = "nan" => out.end = Null
      /\ parseFloat(arg.rows[1].log2fc).t = "nan" => out.log2fc = Null

----------------------------------------------------------------------------
(* Grouping the rows of a gene into contexts *)

IsGeneView ==
    /\ op \in {"GeneView.fromDbRows", "GeneView.fromGeneModel"}
    /\ Len(arg.rows) > 0

RECURSIVE SumCounts(_)
SumCounts(contexts) ==
    IF contexts = <<>> THEN 0 ELSE Head(contexts).sgRNACount + SumCounts(Tail(contexts))

\* the places <<context, position>> of the output that hold the sgRNA id
PlacesOf(contexts, id) ==
    {p \in (1..Len(contexts)) \X (1..MaxRows + 1) :
        /\ p[2] <= Len(contexts[p[1]].sgRNAs)
        /\ contexts[p[1]].sgRNAs[p[2]].id = id}

\* C4: for every non-empty sequence of rows given to GeneView.fromDbRows (and
\* to GeneView.fromGeneModel through the relational gene), the sgRNACount of
\* the returned cell-line contexts sum to the number of rows, totalSgRNAs is
\* that number too, and every row is found at exactly one place of the
\* output: no row is dropped or duplicated.
C4_NoRowDroppedOrDuplicated ==
    IsGeneView =>
        /\ SumCounts(out.cellLines) = Len(arg.rows)
        /\ out.totalSgRNAs = Len(arg.rows)
        /\ \A i \in 1..Len(out.cellLines) :
              out.cellLines[i].sgRNACount = Len(out.cellLines[i].sgRNAs)
        /\ \A r \in 1..Len(arg.rows) :
              Cardinality(PlacesOf(out.cellLines, arg.rows[r].rowid)) = 1

\* three rows of two cell lines, two of them sharing a cell line, grouped
C4_Witness ==
    /\ op = "GeneView.fromDbRows"
    /\ Len(arg.rows) = 3
    /\ Len(out.cellLines) = 2
    /\ \E i \in 1..2 : out.cellLines[i].sgRNACount = 2
    /\ out.totalSgRNAs = 3

IsAssembler ==
    /\ op \in {"GeneView.fromDbRows", "GeneView.fromGeneModel", "Gene.loadWithRelations"}
    /\ Len(arg.rows) > 0

Contexts == IF op = "Gene.loadWithRelations" THEN out.experiments ELSE out.cellLines

ContextOf(r) == CHOOSE i \in 1..Len(Contexts) : PlacesOf(Contexts, arg.rows[r].rowid) \cap ({i} \X (1..MaxRows + 1)) # {}

\* C5: for every row group given to the hierarchical view assembler, the
\* number of contexts of the output is the number of distinct (cell line,
\* condition) pairs of the rows, and two rows are in the same context exactly
\* when they agree on cell line and condition.
C5_ContextPerCellLineAndCondition ==
    IsAssembler =>
        /\ Len(Contexts) =
              Cardinality({<<arg.rows[r].cellline, arg.rows[r].condition>> :
                              r \in 1..Len(arg.rows)})
        /\ \A a, b \in 1..Len(arg.rows) :
              (ContextOf(a) = ContextOf(b)) <=>
                 /\ arg.rows[a].cellline = arg.rows[b].cellline
                 /\ arg.rows[a].condition = arg.rows[b].condition

----------------------------------------------------------------------------
(* Grouped pagination *)

\* the symbols of the rows in the order they are first seen
RECURSIVE FirstSeen(_, _)
FirstSeen(seen, rows) ==
    IF rows = <<>> THEN seen
    ELSE FirstSeen(IF \E i \in 1..Len(seen) : seen[i] = Head(rows).symbol THEN seen
                   ELSE Append(seen, Head(rows).symbol),
                   Tail(rows))

RECURSIVE RowsOf(_, _)
RowsOf(symbol, rows) ==
    IF rows = <<>> THEN <<>>
    ELSE (IF Head(rows).symbol = symbol THEN <<Head(rows)>> ELSE <<>>)
         \o RowsOf(symbol, Tail(rows))

\* the gene views of the rows in grouping order
ViewsOf(rows) ==
    [i \in 1..Len(FirstSeen(<<>>, rows)) |->
        GeneViewToJSON(fromDbRows(RowsOf(FirstSeen(<<>>, rows)[i], rows)))]

\* the page p of the rows with the limit of the call
PageOf(p) ==
    getGeneViewResults(Str(<<"B", "R">>), Num(p), arg.options.limit, arg.options.sortBy,
                       arg.options.sortOrder, arg.rows).results

RECURSIVE PagesUpTo(_)
PagesUpTo(p) == IF p = 0 THEN <<>> ELSE PagesUpTo(p - 1) \o PageOf(p)

IsPaging ==
    /\ op = "getGeneViewResults"
    /\ arg.options.page.n >= 1
    /\ arg.options.limit.n >= 1

\* C6: in grouped pagination, for every list of rows, every page >= 1 and
\* every page size >= 1, the returned page holds the gene views at the
\* positions [(page-1)*pageSize, (page-1)*pageSize + pageSize) of the gene
\* views in grouping order, totalPages is the number of distinct genes
\* divided by the page size and rounded up, and the pages 1..totalPages one
\* after the other are the gene views, each exactly once.
C6_GroupedPagination ==
    IsPaging =>
        LET views == ViewsOf(arg.rows)
            page == arg.options.page.n
            pageSize == arg.options.limit.n
            first == (page - 1) * pageSize
            pages == CHOOSE k \in 0..Len(views) :
                        /\ k * pageSize >= Len(views)
                        /\ k = 0 \/ (k - 1) * pageSize < Len(views)
        IN /\ out.results =
                [i \in 1..Max(0, Min(first + pageSize, Len(views)) - first) |->
                    views[first + i]]
           /\ out.totalRows = Num(Len(views))
           /\ out.totalPages = Num(pages)
           /\ PagesUpTo(pages) = views

\* the second of two pages of three genes, two to a page
C6_Witness ==
    /\ op = "getGeneViewResults"
    /\ arg.options.page = Num(2)
    /\ arg.options.limit = Num(2)
    /\ out.totalRows = Num(3)
    /\ out.totalPages = Num(2)
    /\ Len(out.results) = 1
    /\ out.results[1].symbol = Symbols[3]

----------------------------------------------------------------------------
(* The SQL text the request handlers send to the storage engine *)

IsRequest ==
    op \in {"GET /", "GET / (parseQueryParams)", "GET / (Gene.searchGenes)",
            "GET /api/records", "GET /api/export"}

\* the atoms of a text between ORDER BY and LIMIT (or the end of the text),
\* without the fixed columns the gene view search orders by first
SortPart(text) ==
    LET i == CHOOSE k \in 1..Len(text) : text[k] = " ORDER BY "
        j == IF \E k \in 1..Len(text) : text[k] = " LIMIT "
             THEN CHOOSE k \in 1..Len(text) :
                      text[k] = " LIMIT " /\ \A m \in (k + 1)..Len(text) : text[m] # " LIMIT "
             ELSE Len(text) + 1
        part == SubSeq(text, i + 1, j - 1)
    IN IF part # <<>> /\ part[1] = "symbol, cellline, " THEN Tail(part) ELSE part

SortFields == validSortColumns \cup allowedSortFields

\* C3: on every request path that reaches the storage engine, the sort field
\* and the sort direction of every SQL text sent are a member of the
\* whitelist and one of ASC and DESC: no sortBy or sortOrder of the request
\* is embedded in the text as it came.
C3_SortIsWhitelisted ==
    IsRequest =>
        \A i \in 1..Len(out.sql) :
            (\E k \in 1..Len(out.sql[i]) : out.sql[i][k] = " ORDER BY ") =>
                /\ Len(SortPart(out.sql[i])) = 3
                /\ SortPart(out.sql[i])[1] \in SortFields
                /\ SortPart(out.sql[i])[2] = " "
                /\ SortPart(out.sql[i])[3] \in {"ASC", "DESC"}

----------------------------------------------------------------------------
(* The range, strand and effect filters *)

IsParse == op \in {"parseSearchQuery", "parseSearchQueryLegacy"}

\* the input of the call without the field f
Without(f) == [arg.q EXCEPT ![f] = Undef]

\* what the parser of the call gives for the input q
Reparse(q) == IF op = "parseSearchQuery" THEN parseSearchQuery(q) ELSE parseSearchQueryLegacy(q)

RangeFragment(f) ==
    CASE f = "startPos" -> <<"CAST(", "start", " AS INTEGER)", " >= ", "?">>
      [] f = "endPos" -> <<"CAST(", "end", " AS INTEGER)", " <= ", "?">>
      [] f = "minLog2fc" -> <<"CAST(", "log2fc", " AS REAL)", " >= ", "?">>
      [] f = "maxLog2fc" -> <<"CAST(", "log2fc", " AS REAL)", " <= ", "?">>

\* the value bound to the k-th fragment: the free-text fragment, always the
\* first, takes five values
ParamOfCondition(sa, k) ==
    sa.params[IF k = 1 THEN 1
              ELSE IF sa.conditions[1] = QueryFragment THEN k + 4
              ELSE IF sa.conditions[1] = LegacyQueryFragment THEN k + 1
              ELSE k]

\* C11 as stated: a range input (startPos, endPos, minLog2fc, maxLog2fc)
\* contributes its fragment only when it parses as a finite number, the value
\* bound is then that number, no bound value is NaN, and range inputs alone
\* never make the call raise.
C11_RangeBoundsAreFinite ==
    op = "parseSearchQuery" =>
        /\ (\A f \in Fields \ RangeFields : arg.q[f] = Undef) => ~out.raised
        /\ ~out.raised =>
             /\ \A k \in 1..Len(out.params) : out.params[k].t # "nan"
             /\ \A f \in RangeFields : \A k \in 1..Len(out.conditions) :
                   out.conditions[k] = RangeFragment(f) =>
                      /\ arg.q[f] # Undef
                      /\ ToNumber(arg.q[f]).t = "num"
                      /\ ParamOfCondition(out, k) = ToNumber(arg.q[f])

StrandFragment == <<"strand", " = ", "?">>

HasFragment(sa, frag) == \E k \in 1..Len(sa.conditions) : sa.conditions[k] = frag

\* C12: parseSearchQuery (in searchArg.js and in charts.js) adds the
\* exact-match strand fragment, bound to the input, if and only if the strand
\* input is exactly '+' or exactly '-'; with any other strand value the
\* result, raised or not, is the one of the input without a strand.
C12_StrandExactMatch ==
    IsParse =>
        IF arg.q.strand \in {Str(<<"+">>), Str(<<"-">>)}
        THEN ~out.raised =>
                \E k \in 1..Len(out.conditions) :
                    /\ out.conditions[k] = StrandFragment
                    /\ ParamOfCondition(out, k) = arg.q.strand
                    /\ \A j \in 1..Len(out.conditions) :
                          out.conditions[j] = StrandFragment => j = k
        ELSE /\ out = Reparse(Without("strand"))
             /\ ~out.raised => ~HasFragment(out, StrandFragment)

\* C12 witness: a call with a free-text query took '-' and bound it
C12_Witness ==
    /\ IsParse /\ ~out.raised
    /\ Truthy(arg.q.query)
    /\ arg.q.strand = Str(<<"-">>)
    /\ Len(out.conditions) = 2
    /\ out.conditions[2] = StrandFragment
    /\ out.params[Len(out.params)] = Str(<<"-">>)

\* rows with a score below, at and above 0, without a score, with text
EffectRows ==
    {Row(Num(1), Str(<<"BRCA1">>), Str(<<"HeLa">>), Str(<<"viability">>), Num(100),
         Num(200), Str(<<"A", "C", "G", "T">>), l) :
        l \in {Num(-1), Num(0), Num(2), Num(3), Null, Str(<<"a">>), Str(<<"-", "1">>)}}

\* the parse result without its k-th fragment and the value bound to it
DropCondition(sa, k) ==
    LET p == IF k = 1 THEN 1
             ELSE IF sa.conditions[1] = QueryFragment THEN k + 4
             ELSE IF sa.conditions[1] = LegacyQueryFragment THEN k + 1
             ELSE k
    IN [sa EXCEPT !.conditions = SubSeq(@, 1, k - 1) \o SubSeq(@, k + 1, Len(@)),
                  !.params = SubSeq(@, 1, p - 1) \o SubSeq(@, p + 1, Len(@))]

\* some fragment of the result selects exactly the rows with sign * score > 0
\* and the rest of the result is what the input without an effect gives
SelectsBySign(sign) ==
    \E k \in 1..Len(out.conditions) :
        /\ out.conditions[k][1] = "CAST("
        /\ \A row \in EffectRows :
              Satisfies(row, out.conditions[k], ParamOfCondition(out, k))
                 <=> (IsNum(CastReal(row.log2fc)) /\ sign * CastReal(row.log2fc).n > 0)
        /\ DropCondition(out, k) = Reparse(Without("effect"))

----------------------------------------------------------------------------
(* The direction, the offset and the two texts of buildSearchQuery *)

\* does the parser of the build call accept the filters
FiltersAccepted ==
    \/ op = "buildSearchQuery" /\ ~parseSearchQuery(arg.q).raised
    \/ op = "buildSearchQueryLegacy" /\ ~parseSearchQueryLegacy(arg.q).raised

\* C14 as stated: for every sortOrder value given to buildSearchQuery the
\* call does not raise and the direction of the ORDER BY clause is ASC or
\* DESC, ASC for every value that is neither of the two.
C14_DirectionFallsBackToAsc ==
    FiltersAccepted =>
        /\ ~out.raised
        /\ OrderDirection(out.query) \in {"ASC", "DESC"}
        /\ (arg.options.sortOrder.t # "str"
              \/ arg.options.sortOrder.s \notin
                    {<<"ASC">>, <<"DESC">>, <<"asc">>, <<"desc">>, <<"Desc">>})
           => OrderDirection(out.query) = "ASC"

\* the atoms of a text after the last atom `from` and before the next atom
\* `to` (or the end of the text)
Between(text, from, to) ==
    LET i == CHOOSE k \in 1..Len(text) :
                 text[k] = from /\ \A m \in (k + 1)..Len(text) : text[m] # from
        j == IF \E k \in (i + 1)..Len(text) : text[k] = to
             THEN CHOOSE k \in (i + 1)..Len(text) :
                      text[k] = to /\ \A m \in (i + 1)..(k - 1) : text[m] # to
             ELSE Len(text) + 1
    IN SubSeq(text, i + 1, j - 1)

HasAtom(text, a) == \E k \in 1..Len(text) : text[k] = a

\* the number of a numeral in a text
NumberOf(atoms) ==
    IF atoms # <<>> /\ atoms[1] = "-"
    THEN Num(-DigitsValue(Tail(atoms)))
    ELSE Num(DigitsValue(atoms))

\* the LIMIT and the OFFSET a page query is sent with: written in the text,
\* or bound as its last two values
LimitSent(text, params) ==
    IF Between(text, " LIMIT ", " OFFSET ") = <<"?">> THEN params[Len(params) - 1]
    ELSE IF Between(text, " LIMIT ", " OFFSET ") \in {<<"NaN">>, <<"undefined">>, <<"null">>}
    THEN NaN
    ELSE NumberOf(Between(text, " LIMIT ", " OFFSET "))

OffsetSent(text, params) ==
    IF Between(text, " OFFSET ", " end ") = <<"?">> THEN params[Len(params)]
    ELSE IF Between(text, " OFFSET ", " end ") \in {<<"NaN">>, <<"undefined">>, <<"null">>}
    THEN NaN
    ELSE NumberOf(Between(text, " OFFSET ", " end "))

\* the page a request asks for, a page below 1 or none taken as page 1; an
\* export has no pages and is its own first page
RequestedPage ==
    LET p == parseInt(arg.options.page)
    IN IF op # "GET /api/export" /\ IsNum(p) /\ p.n >= 1 THEN p.n ELSE 1

\* C15 as stated: for every request, the OFFSET of the page query is
\* (page - 1) * pageSize, a requested page below 1 taken as page 1, so the
\* OFFSET sent to storage is never negative.
C15_OffsetNeverNegative ==
    (IsRequest /\ ~out.raised) =>
        \A i \in 1..Len(out.sql) :
            HasAtom(out.sql[i], " OFFSET ") =>
                LET offset == OffsetSent(out.sql[i], out.params)
                    pageSize == LimitSent(out.sql[i], out.params)
                IN /\ IsNum(offset) /\ IsNum(pageSize)
                   /\ offset.n >= 0
                   /\ offset = Num((RequestedPage - 1) * pageSize.n)

\* the filters of the build call as its parser gives them
ParsedFilters ==
    IF op = "buildSearchQuery" THEN parseSearchQuery(arg.q) ELSE parseSearchQueryLegacy(arg.q)

\* the atoms of a query text after its SELECT ... FROM part and before its
\* ORDER BY, if it has one
WherePart(text) ==
    SubSeq(text, 2,
           IF HasAtom(text, " ORDER BY ")
           THEN (CHOOSE k \in 1..Len(text) : text[k] = " ORDER BY ") - 1
           ELSE Len(text))

RECURSIVE AndAll(_)
AndAll(fragments) ==
    IF Len(fragments) = 1 THEN fragments[1]
    ELSE fragments[1] \o <<" AND ">> \o AndAll(Tail(fragments))

Occurrences(text, a) == Cardinality({k \in 1..Len(text) : text[k] = a})

\* C16: for every input that buildSearchQuery accepts, the count query and
\* the page query carry the same WHERE predicate, the fragments of the
\* filters joined by AND (no WHERE without fragments), and the result carries
\* the values of the filters; the count query has no ORDER BY, LIMIT or
\* OFFSET, the page query has one of each, in that order, after the predicate.
C16_SamePredicateInBothQueries ==
    (IsBuild /\ ~out.raised) =>
        /\ WherePart(out.countQuery) = WherePart(out.query)
        /\ WherePart(out.query) =
              IF ParsedFilters.conditions = <<>> THEN <<>>
              ELSE <<" WHERE ">> \o AndAll(ParsedFilters.conditions)
        /\ out.params = ParsedFilters.params
        /\ \A a \in {" ORDER BY ", " LIMIT ", " OFFSET "} :
              /\ Occurrences(out.countQuery, a) = 0
              /\ Occurrences(out.query, a) = 1
        /\ \E i, j, k \in 1..Len(out.query) :
              /\ i < j /\ j < k
              /\ out.query[i] = " ORDER BY "
              /\ out.query[j] = " LIMIT "
              /\ out.query[k] = " OFFSET "
        /\ out.countQuery[1] = "SELECT COUNT(*) as count FROM genome_crispr"
        /\ out.query[1] = "SELECT rowid, * FROM genome_crispr"

\* C16 witness: two filters, joined by AND in both texts
C16_Witness ==
    /\ op = "buildSearchQuery" /\ ~out.raised
    /\ Len(ParsedFilters.conditions) = 2
    /\ Occurrences(out.countQuery, " AND ") = 1
    /\ Occurrences(out.query, " AND ") = 1
    /\ Len(out.params) >= 2

----------------------------------------------------------------------------
(* The page size sent to storage *)

\* the greatest page size of a request path
MaxPageSize == IF op = "GET /api/records" THEN 1000 ELSE 50000

\* C17 as stated: for every request the LIMIT sent to storage is bounded: a
\* requested limit from 1 up to the maximum of the path (50000 for an
\* export, 1000 for /api/records) is sent unchanged, a larger one is sent as
\* that maximum, and no requested limit (zero, negative, not a number) gives a
\* LIMIT that is negative or no number, which storage takes as no limit.
C17_PageSizeIsBounded ==
    (IsRequest /\ ~out.raised) =>
        \A i \in 1..Len(out.sql) :
            HasAtom(out.sql[i], " LIMIT ") =>
                LET sent == LimitSent(out.sql[i], out.params)
                    asked == parseInt(arg.options.limit)
                IN /\ IsNum(sent)
                   /\ sent.n >= 0
                   /\ sent.n <= MaxPageSize
                   /\ (IsNum(asked) /\ asked.n >= 1 /\ asked.n <= MaxPageSize) => sent = asked
                   /\ (IsNum(asked) /\ asked.n > MaxPageSize) => sent = Num(MaxPageSize)

----------------------------------------------------------------------------
(* The request handlers step by step.  A handler sends a query and returns; *)
(* the storage engine calls it back later, with an error or with rows.  op  *)
(* is the position of the request: "received", the query it waits for       *)
(* ("count", "data", "genes", "lookup"), or "done".  out.sql holds the      *)
(* texts sent so far, out.failed the steps storage reported an error for,   *)
(* out.total the count kept between the two steps of the flat search and    *)
(* out.responses what res.render and res.json were called with.             *)

SearchHandlers == {"GET /", "GET /api/records"}

LookupHandlers ==
    {"GET /details/:id", "GET /api/records/:id", "GET /gene/:symbol",
     "GET /gene/:symbol (Gene.loadWithRelations)"}

Request(handler, q, options, key, referer, rows) ==
    [handler |-> handler, q |-> q, options |-> options, key |-> key, referer |-> referer,
     rows |-> rows]

Handling(at, sql, params, failed, total, responses) ==
    [op |-> at,
     out |-> [sql |-> sql, params |-> params, failed |-> failed, total |-> total,
              responses |-> responses]]

\* a response: the template or "json", the status, and the fields passed
Respond(view, status, error) ==
    [view |-> view, status |-> status, error |-> error, results |-> <<>>,
     totalRows |-> Undef, totalPages |-> Undef, data |-> Undef, filters |-> Undef]

\* the default error handler of Express answers an exception that leaves a
\* handler before it responded
Uncaught == Respond("error", 500, Str(<<"Internal Server Error">>))

DatabaseError == Str(<<"Database error occurred">>)
InternalError == Str(<<"Internal server error">>)

\* the filters and sort directives a response carries
Echo(searchQuery, strand, effect, sortBy, sortOrder) ==
    [query |-> searchQuery, strand |-> strand, effect |-> effect, sortBy |-> sortBy,
     sortOrder |-> sortOrder]

\* the constants at the head of a search handler
SearchParams(request) ==
    IF request.handler = "GET /"
    THEN [searchQuery |-> Or(request.q.query, Str(<<>>)),
          strand |-> Undef,
          effect |-> Undef,
          page |-> Or(parseInt(request.options.page), Num(1)),
          limit |-> Or(parseInt(request.options.limit), Num(10)),
          sortBy |-> Or(request.options.sortBy, Str(<<"rowid">>)),
          sortOrder |-> Or(request.options.sortOrder, Str(<<"ASC">>))]
    ELSE parseQueryParams(request.q, request.options)

EchoOf(p) == Echo(p.searchQuery, p.strand, p.effect, p.sortBy, p.sortOrder)

\* the call of buildSearchQuery in a search handler
SearchBuilt(request) ==
    LET p == SearchParams(request)
        options == [page |-> p.page, limit |-> p.limit, sortBy |-> p.sortBy,
                    sortOrder |-> p.sortOrder]
    IN IF request.handler = "GET /" THEN buildSearchQuery(request.q, options)
       ELSE buildSearchQuery(ApiFilters(request.q), options)

\* the page rendered without a search
EmptySearchPage ==
    [Respond("index", 200, Null) EXCEPT
        !.totalRows = Num(0), !.totalPages = Num(0),
        !.filters = Echo(Str(<<>>), Undef, Undef, Str(<<"rowid">>), Str(<<"ASC">>))]

\* the answer to a storage error in a search: the error page, or 500
SearchFailed(request) ==
    IF request.handler = "GET /"
    THEN [Respond("index", 200, DatabaseError) EXCEPT
             !.totalRows = Num(0), !.totalPages = Num(0),
             !.filters = EchoOf(SearchParams(request))]
    ELSE Respond("json", 500, InternalError)

\* the answer of a search that went through
SearchSucceeded(request, results, totalRows, totalPages) ==
    [Respond(IF request.handler = "GET /" THEN "index" ELSE "json", 200, Null) EXCEPT
        !.results = results, !.totalRows = totalRows, !.totalPages = totalPages,
        !.filters = EchoOf(SearchParams(request))]

\* the flat search from the builder's result on: an exception of the builder
\* is answered with raised, otherwise the count query is sent with the
\* builder's params
StartFlatSearch(built, raised) ==
    IF built.raised THEN Handling("done", <<>>, <<>>, <<>>, Undef, <<raised>>)
    ELSE Handling("count", <<built.countQuery>>, <<built.params>>, <<>>, Undef, <<>>)

\* db.all(query, params, ...) after the count
SendData(o, built, failed, total, responses) ==
    Handling("data", Append(o.sql, built.query), Append(o.params, built.params), failed, total,
             responses)

\* a search handler up to its first query
ReceiveSearch(request) ==
    LET p == SearchParams(request)
    IN IF request.handler = "GET /"
       THEN IF ~Truthy(p.searchQuery)
            THEN Handling("done", <<>>, <<>>, <<>>, Undef, <<EmptySearchPage>>)
            ELSE IF shouldUseGeneView(p.searchQuery)
            THEN Handling("genes", <<GeneSearchQuery(p.sortBy, p.sortOrder)>>,
                          <<<<SearchPattern(p.searchQuery), SearchPattern(p.searchQuery)>>>>,
                          <<>>, Undef, <<>>)
            ELSE StartFlatSearch(SearchBuilt(request), Uncaught)
       ELSE IF OrderCallThrows(request.options.sortOrder)
            THEN Handling("done", <<>>, <<>>, <<>>, Undef, <<Respond("json", 500, InternalError)>>)
            ELSE IF ~validateSortBy(p.sortBy)
            THEN Handling("done", <<>>, <<>>, <<>>, Undef,
                          <<Respond("json", 400, Str(<<"Invalid sort field">>))>>)
            ELSE StartFlatSearch(SearchBuilt(request), Respond("json", 500, InternalError))

\* a count callback that answers the error and goes on to the data query
CountCallbackWithoutReturn(request, o, err, count) ==
    SendData(o, SearchBuilt(request),
             IF err THEN Append(o.failed, "count") ELSE o.failed,
             IF err THEN o.total ELSE Or(Undef, Num(count)),
             IF err THEN Append(o.responses, SearchFailed(request)) ELSE o.responses)

\* the callback of the count query: countResult.total || countResult.count
\* is kept and the data query sent, or the error answered
CountCallback(request, o, err, count) ==
    IF err
    THEN Handling("done", o.sql, o.params, Append(o.failed, "count"), o.total,
                  Append(o.responses, SearchFailed(request)))
    ELSE SendData(o, SearchBuilt(request), o.failed, Or(Undef, Num(count)), o.responses)

\* the callback of the data query
DataCallback(request, o, err, rows) ==
    LET limit == SearchParams(request).limit
    IN IF err
       THEN Handling("done", o.sql, o.params, Append(o.failed, "data"), o.total,
                     Append(o.responses, SearchFailed(request)))
       ELSE Handling("done", o.sql, o.params, o.failed, o.total,
                     Append(o.responses,
                            SearchSucceeded(request,
                                            [i \in 1..Len(rows) |-> formatGeneFromRow(rows[i])],
                                            o.total,
                                            Ceil(Rat(o.total.n * limit.d, limit.n)))))

\* the callback of getGeneViewResults in app.get('/')
GenesCallback(request, o, err, allRows) ==
    LET p == SearchParams(request)
        result == getGeneViewResults(p.searchQuery, p.page, p.limit, p.sortBy, p.sortOrder,
                                     allRows)
    IN IF err
       THEN Handling("done", o.sql, o.params, Append(o.failed, "genes"), o.total,
                     Append(o.responses, SearchFailed(request)))
       ELSE Handling("done", o.sql, o.params, o.failed, o.total,
                     Append(o.responses,
                            SearchSucceeded(request, result.results, result.totalRows,
                                            result.totalPages)))

\* the text of a lookup
LookupQuery(handler) ==
    IF handler \in {"GET /details/:id", "GET /api/records/:id"}
    THEN <<"SELECT rowid, * FROM genome_crispr", " WHERE ", "rowid = ", "?">>
    ELSE IF handler = "GET /gene/:symbol"
    THEN <<"SELECT rowid, * FROM genome_crispr", " WHERE ", "symbol = ", "?",
           " ORDER BY ", "cellline, start">>
    ELSE <<"SELECT g.gene_id, g.symbol, g.ensg, g.chr, e.experiment_id, cl.name as cellline, e.condition, s.sgrna_id, s.sequence, s.start_pos, s.end_pos, s.strand, s.log2fc FROM genes g JOIN experiments e JOIN cell_lines cl JOIN sgrnas s",
           " WHERE ", "g.symbol = ", "?", " ORDER BY ", "cl.name, s.start_pos">>

\* the value a lookup binds: the id of the path, parsed by the record API,
\* or the symbol
LookupKey(request) ==
    IF request.handler = "GET /api/records/:id" THEN parseInt(request.key) ELSE request.key

\* a lookup handler up to its query: the record API parses the id, the gene
\* page of server.js parses the Referer header with new URL()
ReceiveLookup(request) ==
    IF request.handler = "GET /api/records/:id" /\ parseInt(request.key).t = "nan"
    THEN Handling("done", <<>>, <<>>, <<>>, Undef,
                  <<Respond("json", 400, Str(<<"Invalid record ID">>))>>)
    ELSE IF request.handler = "GET /gene/:symbol" /\ request.referer = "malformed"
    THEN Handling("done", <<>>, <<>>, <<>>, Undef, <<Uncaught>>)
    ELSE Handling("lookup", <<LookupQuery(request.handler)>>, <<<<LookupKey(request)>>>>, <<>>,
                  Undef, <<>>)

\* the answer to a storage error in a lookup
LookupFailed(handler) ==
    IF handler = "GET /api/records/:id" THEN Respond("json", 500, InternalError)
    ELSE IF handler = "GET /details/:id" THEN Respond("details", 200, DatabaseError)
    ELSE Respond("gene-overview", 200, DatabaseError)

\* a lookup that answers no rows like a storage error
NotFoundAsError(handler) ==
    IF handler = "GET /api/records/:id" THEN Respond("json", 500, InternalError)
    ELSE IF handler = "GET /details/:id" THEN Respond("details", 200, DatabaseError)
    ELSE Respond("gene-overview", 200, DatabaseError)

\* the answer to a lookup without rows
NotFound(handler) ==
    IF handler = "GET /api/records/:id"
    THEN Respond("json", 404, Str(<<"Record not found">>))
    ELSE IF handler = "GET /details/:id"
    THEN Respond("details", 200, Str(<<"Record not found">>))
    ELSE Respond("gene-overview", 200, Str(<<"Gene not found">>))

\* the record, or the gene, of a lookup with rows
Found(handler, rows) ==
    IF handler = "GET /api/records/:id"
    THEN [Respond("json", 200, Null) EXCEPT !.data = formatGeneFromRow(rows[1])]
    ELSE IF handler = "GET /details/:id"
    THEN [Respond("details", 200, Null) EXCEPT !.data = formatGeneFromRow(rows[1])]
    ELSE IF handler = "GET /gene/:symbol"
    THEN [Respond("gene-overview", 200, Null) EXCEPT
             !.data = GeneViewToJSON(fromDbRows(rows))]
    ELSE [Respond("gene-overview", 200, Null) EXCEPT
             !.data = GeneViewToJSON(fromGeneModel(GeneToJSON(
                          loadWithRelations([i \in 1..Len(rows) |->
                                                RelationalRow(rows[i])]))))]

\* the callback of a lookup: db.get answers the first row or undefined,
\* db.all every row
LookupCallback(request, o, err, rows) ==
    IF err
    THEN Handling("done", o.sql, o.params, Append(o.failed, "lookup"), o.total,
                  Append(o.responses, LookupFailed(request.handler)))
    ELSE IF Len(rows) = 0
    THEN Handling("done", o.sql, o.params, o.failed, o.total,
                  Append(o.responses, NotFound(request.handler)))
    ELSE Handling("done", o.sql, o.params, o.failed, o.total,
                  Append(o.responses, Found(request.handler, rows)))

\* the requests: a search with its filters and directives, a lookup with the
\* key of its path
StorageQueries == {Undef, Str(<<"B", "R">>), Str(<<"1", "7">>)}
StorageStrands == {Undef, Str(<<"+">>)}
StorageEffects == {Undef, Str(<<"up">>)}

StorageFilters ==
    {FilterInput({"query", "strand", "effect"},
                 [x \in {"query", "strand", "effect"} |->
                     IF x = "query" THEN v ELSE IF x = "strand" THEN s ELSE e]) :
        v \in StorageQueries, s \in StorageStrands, e \in StorageEffects}

StorageOptions ==
    [page : {Undef}, limit : {Undef},
     sortBy : {Undef, Str(<<"start">>), Str(<<"pubmed">>), Str(<<"condition">>)},
     sortOrder : {Undef, Str(<<"DESC">>), Str(<<"desc">>), Str(<<"down">>)}]
    \cup [page : {Str(<<"2">>)}, limit : {Str(<<"1">>)}, sortBy : {Undef}, sortOrder : {Undef}]

StorageTables == {rows \in SearchTables : Len(rows) \in {0, MaxRows}}

RecordKeys == {Str(<<"1">>), Str(<<"a">>), Str(<<"1", "2", "a">>), Str(<<" ", "7">>)}
RecordRows ==
    {<<>>} \cup {<<Row(Num(1), Str(<<"BRCA1">>), Str(<<"HeLa">>), Str(<<"viability">>),
                       Num(100), Num(200), Str(<<"A", "C", "G", "T">>), l)>> :
                    l \in Log2fcValues}
Referers == {"none", "url", "malformed"}

SearchRequests ==
    {Request(h, q, o, Undef, "none", rs) :
        h \in SearchHandlers, q \in StorageFilters, o \in StorageOptions,
        rs \in StorageTables}

RecordRequests ==
    {Request(h, FilterInput({}, <<>>), NoOptions, k, "none", rs) :
        h \in {"GET /details/:id", "GET /api/records/:id"}, k \in RecordKeys,
        rs \in RecordRows}

\* the requests for the page of a gene whose lookup answers the rows
GeneRequests(rows) ==
    {Request("GET /gene/:symbol", FilterInput({}, <<>>), NoOptions, Str(<<"BRCA1">>), r,
             rows) : r \in Referers}
    \cup {Request("GET /gene/:symbol (Gene.loadWithRelations)", FilterInput({}, <<>>),
                  NoOptions, Str(<<"BRCA1">>), "none", rows)}

----------------------------------------------------------------------------
(* The steps *)

Receive ==
    /\ op = "received"
    /\ LET s == IF arg.handler \in SearchHandlers THEN ReceiveSearch(arg)
                ELSE ReceiveLookup(arg)
       IN op' = s.op /\ out' = s.out
    /\ UNCHANGED arg

\* storage answers the count query: an error, or the number of rows
CountAnswered ==
    /\ op = "count"
    /\ \E err \in BOOLEAN :
          LET s == CountCallback(arg, out, err, Len(arg.rows))
          IN op' = s.op /\ out' = s.out
    /\ UNCHANGED arg

DataAnswered ==
    /\ op = "data"
    /\ \E err \in BOOLEAN :
          LET s == DataCallback(arg, out, err, arg.rows)
          IN op' = s.op /\ out' = s.out
    /\ UNCHANGED arg

GenesAnswered ==
    /\ op = "genes"
    /\ \E err \in BOOLEAN :
          LET s == GenesCallback(arg, out, err, arg.rows)
          IN op' = s.op /\ out' = s.out
    /\ UNCHANGED arg

LookupAnswered ==
    /\ op = "lookup"
    /\ \E err \in BOOLEAN :
          LET s == LookupCallback(arg, out, err, arg.rows)
          IN op' = s.op /\ out' = s.out
    /\ UNCHANGED arg

InitStorage ==
    /\ op = "received"
    /\ out = Handling("received", <<>>, <<>>, <<>>, Undef, <<>>).out
    /\ \/ arg \in SearchRequests \cup RecordRequests
       \/ \E rows \in RowGroups : arg \in GeneRequests(rows)

NextStorage ==
    \/ Receive
    \/ CountAnswered
    \/ DataAnswered
    \/ GenesAnswered
    \/ LookupAnswered

SpecStorage == InitStorage /\ [][NextStorage]_vars

----------------------------------------------------------------------------
(* Storage failures in the two-step flat search *)

\* the request went into the flat search: its first text is the count query
InFlatSearch ==
    /\ arg.handler \in SearchHandlers
    /\ out.sql # <<>>
    /\ out.sql[1] = SearchBuilt(arg).countQuery

\* a response that reports an error and carries neither rows nor totals
IsBareError(r) ==
    /\ r.error # Null
    /\ r.results = <<>>
    /\ r.data = Undef
    /\ r.totalRows \in {Undef, Num(0)}
    /\ r.totalPages \in {Undef, Num(0)}
    /\ r.view = "json" => r.status = 500

\* C18: in the flat search (the count query, then the data query) a request
\* never has more than one response and is done exactly when it has one; the
\* data query is sent only after the count was answered without an error; a
\* request that ends after a storage error at either step has an error
\* response with no rows and no totals, and one that ends after both steps
\* went through has a success response with the formatted rows and the count.
C18_FlatSearchFailsWhole ==
    InFlatSearch =>
        /\ Len(out.responses) <= 1
        /\ (op = "done") <=> (Len(out.responses) = 1)
        /\ Len(out.failed) <= 1
        /\ out.failed = <<"count">> =>
              out.sql = <<SearchBuilt(arg).countQuery>> /\ op = "done"
        /\ Len(out.sql) = 2 =>
              out.sql[2] = SearchBuilt(arg).query /\ out.failed \in {<<>>, <<"data">>}
        /\ out.failed # <<>> => op = "done" /\ IsBareError(out.responses[1])
        /\ (op = "done" /\ out.failed = <<>>) =>
              /\ Len(out.sql) = 2
              /\ out.responses[1].error = Null
              /\ out.responses[1].status = 200
              /\ out.responses[1].results =
                    [i \in 1..Len(arg.rows) |-> formatGeneFromRow(arg.rows[i])]
              /\ out.responses[1].totalRows = Num(Len(arg.rows))

\* the count found rows, then the data query failed: the error response
\* carries no rows and not the count
C18_Witness ==
    /\ InFlatSearch
    /\ op = "done"
    /\ out.failed = <<"data">>
    /\ Len(out.sql) = 2
    /\ out.total = Num(MaxRows)
    /\ Len(out.responses) = 1
    /\ IsBareError(out.responses[1])

----------------------------------------------------------------------------
(* The outcomes of a lookup *)

\* the lookup was sent to storage
InLookup == arg.handler \in LookupHandlers /\ out.sql # <<>>

\* the three outcomes, read from a response: the status of a JSON response
\* and the message a page is rendered with
IsErrorOutcome(r) ==
    /\ r.data = Undef
    /\ IF r.view = "json" THEN r.status = 500 ELSE r.error = DatabaseError

IsNotFoundOutcome(r) ==
    /\ r.data = Undef
    /\ IF r.view = "json" THEN r.status = 404
       ELSE r.error \in {Str(<<"Record not found">>), Str(<<"Gene not found">>)}

IsRecordOutcome(r) == r.error = Null /\ r.status = 200 /\ r.data # Undef

OutcomesOf(r) ==
    {o \in {"error", "not-found", "record"} :
        \/ o = "error" /\ IsErrorOutcome(r)
        \/ o = "not-found" /\ IsNotFoundOutcome(r)
        \/ o = "record" /\ IsRecordOutcome(r)}

\* C19: a lookup (record by id, gene by symbol) sent to storage never has
\* more than one response and is done exactly when it has one; the response
\* is the error outcome when the query failed, the not-found outcome when it
\* answered no rows, and the record when it answered rows, and no response
\* is of two outcomes at once.
C19_NotFoundIsNotAnError ==
    InLookup =>
        /\ out.sql = <<LookupQuery(arg.handler)>>
        /\ Len(out.responses) <= 1
        /\ (op = "done") <=> (Len(out.responses) = 1)
        /\ op = "done" =>
              OutcomesOf(out.responses[1]) =
                 IF out.failed # <<>> THEN {"error"}
                 ELSE IF Len(arg.rows) = 0 THEN {"not-found"}
                 ELSE {"record"}
        /\ (op = "done" /\ out.failed = <<>> /\ Len(arg.rows) > 0
            /\ arg.handler \in {"GET /details/:id", "GET /api/records/:id"}) =>
              out.responses[1].data.id = arg.rows[1].rowid

\* the gene query went through and answered no rows
C19_Witness ==
    /\ InLookup
    /\ arg.handler = "GET /gene/:symbol"
    /\ op = "done"
    /\ out.failed = <<>>
    /\ arg.rows = <<>>
    /\ out.responses = <<NotFound(arg.handler)>>
    /\ out.responses[1].error = Str(<<"Gene not found">>)

----------------------------------------------------------------------------
(* The filters and sort directives echoed by a search *)

\* the filters and sort directives of the request, as its query string has them
Supplied ==
    Echo(arg.q.query, arg.q.strand, arg.q.effect, arg.options.sortBy, arg.options.sortOrder)

\* the API search ended with its success response
ApiSearchSucceeded ==
    /\ arg.handler = "GET /api/records"
    /\ op = "done"
    /\ out.failed = <<>>
    /\ Len(out.responses) = 1
    /\ out.responses[1].status = 200

\* C20: the success response of a search carries every filter and sort
\* directive the request supplied (query, strand, effect, sortBy, sortOrder)
\* with the value the request gave it.
C20_EchoesDirectivesUnmodified ==
    ApiSearchSucceeded =>
        \A x \in {"query", "strand", "effect", "sortBy", "sortOrder"} :
            Supplied[x] # Undef => out.responses[1].filters[x] = Supplied[x]

----------------------------------------------------------------------------
(* The genes of a grouped response *)

\* the number of rows with the symbol
CountOf(symbol, rows) == Cardinality({r \in 1..Len(rows) : rows[r].symbol = symbol})

\* C21: for every list of fetched rows, every page >= 1 and page size >= 1,
\* getGeneViewResults reports as totalRows the number of distinct symbols of
\* the rows, and the gene views of the page are those of the symbols in the
\* order the symbols are first seen in the rows, each holding as many
\* measurements as there are rows with its symbol.
C21_OneViewPerSymbol ==
    IsPaging =>
        LET symbols == FirstSeen(<<>>, arg.rows)
            first == (arg.options.page.n - 1) * arg.options.limit.n
        IN /\ out.totalRows = Num(Cardinality({arg.rows[r].symbol : r \in 1..Len(arg.rows)}))
           /\ Len(symbols) = out.totalRows.n
           /\ Len(out.results) =
                 Max(0, Min(first + arg.options.limit.n, Len(symbols)) - first)
           /\ \A i \in 1..Len(out.results) :
                 /\ out.results[i].symbol = symbols[first + i]
                 /\ out.results[i].totalSgRNAs = CountOf(symbols[first + i], arg.rows)
                 /\ SumCounts(out.results[i].cellLines) = out.results[i].totalSgRNAs

\* three rows of one symbol: one gene with three measurements
C21_Witness ==
    /\ IsPaging
    /\ arg.options.page = Num(1)
    /\ Len(arg.rows) = 3
    /\ \A r \in 1..3 : arg.rows[r].symbol = arg.rows[1].symbol
    /\ out.totalRows = Num(1)
    /\ Len(out.results) = 1
    /\ out.results[1].totalSgRNAs = 3

----------------------------------------------------------------------------
(* The mean effect of a context and of a gene *)

\* the rows of the set whose log2fc parses to a number
Parseable(S) == {r \in S : parseFloat(arg.rows[r].log2fc).t # "nan"}

RECURSIVE SumOfRows(_)
SumOfRows(S) ==
    IF S = {} THEN Num(0)
    ELSE LET r == CHOOSE x \in S : TRUE
         IN Add(parseFloat(arg.rows[r].log2fc), SumOfRows(S \ {r}))

\* the mean of the parseable scores of the rows of the set, null without any
RowMean(S) ==
    IF Parseable(S) = {} THEN Null
    ELSE Rat(SumOfRows(Parseable(S)).n,
             SumOfRows(Parseable(S)).d * Cardinality(Parseable(S)))

\* the rows whose measurement is in the context
RowsFiledIn(i) ==
    {r \in 1..Len(arg.rows) :
        \E j \in 1..Len(Contexts[i].sgRNAs) : Contexts[i].sgRNAs[j].id = arg.rows[r].rowid}

\* the key a row is filed under: its cell line in a GeneView, its cell line
\* and condition ('default' without one) in a Gene
KeyOfRow(r) ==
    IF op = "Gene.loadWithRelations"
    THEN <<arg.rows[r].cellline, Or(arg.rows[r].condition, Str(<<"default">>))>>
    ELSE <<arg.rows[r].cellline>>

KeyOfContext(i) ==
    IF op = "Gene.loadWithRelations"
    THEN <<Contexts[i].cellline, Or(Contexts[i].condition, Str(<<"default">>))>>
    ELSE <<Contexts[i].name>>

RECURSIVE FirstSeenKeys(_, _)
FirstSeenKeys(seen, r) ==
    IF r > Len(arg.rows) THEN seen
    ELSE FirstSeenKeys(IF \E i \in 1..Len(seen) : seen[i] = KeyOfRow(r) THEN seen
                       ELSE Append(seen, KeyOfRow(r)),
                       r + 1)

\* C22: in the output of the view assemblers, the averageEffect of each
\* context is the mean of the parseable log2fc values of the rows filed in
\* it and null when it has none, the averageEffect of the gene is the mean of
\* the parseable log2fc values of all rows and null when there are none, and
\* the contexts are in the order their keys are first seen in the rows.
C22_MeanOfParseableScores ==
    IsAssembler =>
        /\ \A i \in 1..Len(Contexts) :
              Contexts[i].averageEffect = RowMean(RowsFiledIn(i))
        /\ out.averageEffect = RowMean(1..Len(arg.rows))
        /\ [i \in 1..Len(Contexts) |-> KeyOfContext(i)] = FirstSeenKeys(<<>>, 1)

\* two contexts: one with the scores 1 and -2 (mean -1/2), one without a
\* parseable score (null)
C22_Witness ==
    /\ op = "GeneView.fromDbRows"
    /\ Len(arg.rows) = 3
    /\ Len(out.cellLines) = 2
    /\ out.cellLines[1].averageEffect = Rat(-1, 2)
    /\ out.cellLines[2].averageEffect = Null
    /\ out.averageEffect = Rat(-1, 2)

----------------------------------------------------------------------------
(* The builder called again with the same input object.  arg.q and          *)
(* arg.options are the objects of the caller, which every call is handed;   *)
(* out lists the calls made: the function, the input as it was handed over  *)
(* and what the call returned.                                              *)

MaxCalls == 3

Called(call, result) == Append(out, [call |-> call, given |-> arg, result |-> result])

\* parseSearchQuery reads its argument and fills a new SearchArguments
ParseSearchQueryAgain ==
    /\ Len(out) < MaxCalls
    /\ arg.kind = "filter"
    /\ op' = "parseSearchQuery"
    /\ out' = Called("parseSearchQuery", parseSearchQuery(arg.q))
    /\ UNCHANGED arg

\* buildSearchQuery reads its arguments; the defaults of the options are
\* bound to local names
BuildSearchQueryAgain ==
    /\ Len(out) < MaxCalls
    /\ arg.kind \in {"filter", "build"}
    /\ op' = "buildSearchQuery"
    /\ out' = Called("buildSearchQuery", buildSearchQuery(arg.q, arg.options))
    /\ UNCHANGED arg

InitRepeat ==
    /\ op = "none"
    /\ out = <<>>
    /\ \/ \E q \in FilterInputs : arg = Arg("filter", q, NoOptions, NoRows)
       \/ \E q \in BaseFilters, o \in OptionInputs : arg = Arg("build", q, o, NoRows)

NextRepeat ==
    \/ ParseSearchQueryAgain
    \/ BuildSearchQueryAgain

SpecRepeat == InitRepeat /\ [][NextRepeat]_vars

----------------------------------------------------------------------------
(* Requests in flight together.  Every call of a handler has its own        *)
(* bindings (searchQuery, page, limit, query, params, res), which the       *)
(* callbacks it passes to the storage engine close over; the engine calls   *)
(* the callbacks of different requests back in any order.  op, arg and      *)
(* out.of hold position, request and handling of each request, out.started  *)
(* the order in which the handlers were entered.                            *)

\* bindings kept in one place for all calls: those of the call entered last
CapturedLatest(r, started) == started[Len(started)]

MaxRequests == 2
RequestIds == 1..MaxRequests

\* the bindings of the handler call the callback of request r was made in
Captured(r, started) == r

ConcurrentFilters ==
    {FilterInput({"query"}, [x \in {"query"} |-> Str(<<"B", "R">>)]),
     FilterInput({"query", "strand"},
                 [x \in {"query", "strand"} |->
                     IF x = "query" THEN Str(<<"1", "7">>) ELSE Str(<<"-">>)])}

ConcurrentOptions ==
    {NoOptions,
     [page |-> Str(<<"2">>), limit |-> Str(<<"1">>), sortBy |-> Str(<<"start">>),
      sortOrder |-> Str(<<"DESC">>)]}

\* storage answers a query for BR with rows of one gene, any other with rows
\* of MaxGenes genes or fewer
RowsAnswered(q) ==
    CHOOSE rows \in RequestTables :
        IF q.query = Str(<<"B", "R">>)
        THEN \A i \in 1..Len(rows) : rows[i].symbol = Symbols[1]
        ELSE \A i \in 1..Len(rows) : rows[i].symbol = Symbols[Min(i, MaxGenes)]

ConcurrentRequests ==
    {Request(h, q, o, Undef, "none", RowsAnswered(q)) :
        h \in SearchHandlers, q \in ConcurrentFilters, o \in ConcurrentOptions}

Stepped(r, s, started) ==
    /\ op' = [op EXCEPT ![r] = s.op]
    /\ out' = [of |-> [out.of EXCEPT ![r] = s.out], started |-> started]
    /\ UNCHANGED arg

ReceiveConcurrent ==
    \E r \in RequestIds :
        /\ op[r] = "received"
        /\ Stepped(r, ReceiveSearch(arg[r]), Append(out.started, r))

CountAnsweredConcurrent ==
    \E r \in RequestIds, err \in BOOLEAN :
        /\ op[r] = "count"
        /\ Stepped(r, CountCallback(arg[Captured(r, out.started)], out.of[r], err,
                                    Len(arg[r].rows)),
                   out.started)

DataAnsweredConcurrent ==
    \E r \in RequestIds, err \in BOOLEAN :
        /\ op[r] = "data"
        /\ Stepped(r, DataCallback(arg[Captured(r, out.started)], out.of[r], err,
                                   arg[r].rows),
                   out.started)

GenesAnsweredConcurrent ==
    \E r \in RequestIds, err \in BOOLEAN :
        /\ op[r] = "genes"
        /\ Stepped(r, GenesCallback(arg[Captured(r, out.started)], out.of[r], err,
                                    arg[r].rows),
                   out.started)

InitConcurrent ==
    /\ op = [r \in RequestIds |-> "received"]
    /\ arg \in [RequestIds -> ConcurrentRequests]
    /\ out = [of |-> [r \in RequestIds |-> Handling("received", <<>>, <<>>, <<>>, Undef,
                                                     <<>>).out],
              started |-> <<>>]

NextConcurrent ==
    \/ ReceiveConcurrent
    \/ CountAnsweredConcurrent
    \/ DataAnsweredConcurrent
    \/ GenesAnsweredConcurrent

SpecConcurrent == InitConcurrent /\ [][NextConcurrent]_vars

\* position and handling a request can have when it is the only one
AloneStates(request) ==
    LET s0 == ReceiveSearch(request)
        s1 == IF s0.op = "count"
              THEN {CountCallback(request, s0.out, e, Len(request.rows)) : e \in BOOLEAN}
              ELSE IF s0.op = "genes"
              THEN {GenesCallback(request, s0.out, e, request.rows) : e \in BOOLEAN}
              ELSE {}
        s2 == {DataCallback(request, s.out, e, request.rows) :
                  s \in {x \in s1 : x.op = "data"}, e \in BOOLEAN}
    IN {s0} \cup s1 \cup s2

----------------------------------------------------------------------------
(* Grouping calls one after the other.  out.heap holds the GeneView objects *)
(* made so far, an object known by its position; out.returned lists, for    *)
(* each call, the object it returned and the object and its toJSON() as     *)
(* they were when it returned.  arg holds the rows of the last call.        *)

\* one GeneView object used by every call
SameObject(heap) == 1

MaxViews == 3

\* the object `new GeneView(...)` makes: one that did not exist before
NewObject(heap) == Len(heap) + 1

\* row groups of one or two rows
ViewRows ==
    {rows \in RowGroups :
        /\ Len(rows) \in 1..2
        /\ \A i \in 1..Len(rows) :
              rows[i].condition = Str(<<"viability">>) /\ rows[i].log2fc \in {Num(1), Null}}

\* GeneView.fromDbRows(rows): the constructor, then addCellLine for each row
FromDbRowsAgain ==
    /\ Len(out.heap) < MaxViews
    /\ \E rows \in ViewRows :
          LET geneView == NewObject(out.heap)
              built == AddRows(NewGeneView(rows[1]), rows)
              heap == IF geneView > Len(out.heap) THEN Append(out.heap, built)
                      ELSE [out.heap EXCEPT ![geneView] = built]
          IN /\ arg' = Arg("group", FilterInput({}, <<>>), NoOptions, rows)
             /\ out' = [heap |-> heap,
                        returned |-> Append(out.returned,
                                            [view |-> geneView, object |-> heap[geneView],
                                             json |-> GeneViewToJSON(heap[geneView])])]
    /\ op' = "GeneView.fromDbRows"

InitViews ==
    /\ op = "none"
    /\ arg = Arg("group", FilterInput({}, <<>>), NoOptions, NoRows)
    /\ out = [heap |-> <<>>, returned |-> <<>>]

NextViews == FromDbRowsAgain

SpecViews == InitViews /\ [][NextViews]_vars

----------------------------------------------------------------------------
(* The id of the record API *)

\* the id of the path is a decimal number: digits, and nothing else
IsNumericId(key) ==
    /\ key.t = "str"
    /\ key.s # <<>>
    /\ \A i \in 1..Len(key.s) : key.s[i] \in Digits

\* C26: GET /api/records/:id with an id that is not numeric is answered with
\* 400 'Invalid record ID' and sends no query to storage; a lookup reaches
\* storage only for a numeric id, bound as its number.
C26_NonNumericIdRejected ==
    (arg.handler = "GET /api/records/:id" /\ op # "received") =>
        IF IsNumericId(arg.key)
        THEN out.sql = <<LookupQuery(arg.handler)>>
             /\ out.params = <<<<Num(DigitsValue(arg.key.s))>>>>
        ELSE /\ op = "done"
             /\ out.sql = <<>>
             /\ Len(out.responses) = 1
             /\ out.responses[1].status = 400
             /\ out.responses[1].error = Str(<<"Invalid record ID">>)

----------------------------------------------------------------------------
(* The sort field of the record API *)

ApiSortFields ==
    {"rowid", "chr", "start", "end", "strand", "symbol", "ensg", "log2fc", "effect",
     "cellline"}

\* the sort field of the request, rowid when it names none
SortFieldAsked ==
    IF arg.options.sortBy = Undef THEN <<"rowid">> ELSE arg.options.sortBy.s

----------------------------------------------------------------------------
(* GET /api/stats: five queries, their callbacks in any order, any of them
   failing.  arg is the request, out the handler's closure: the queries
   whose callback is still to come, the keys of results, the counter
   completed and every write to res, in order. *)

StatsKeys == <<"total", "chromosomes", "strands", "effects", "cellLines">>

\* Object.keys(queries).length
StatsTotal == Len(StatsKeys)

\* "forEach": the helper variant issues all five at once; "nested":
\* server.js issues each query in the callback of the one before
StatsRequests == [handler : {"GET /api/stats"}, issue : {"forEach", "nested"}]

StatsSucceeded == Respond("json", 200, Undef)

\* handleApiError(res, err)
StatsFailed == Respond("json", 500, InternalError)

StatsClosure(pending, results, completed, writes) ==
    [pending |-> pending, results |-> results, completed |-> completed, writes |-> writes]

\* the callback of one of the five db.all calls of the forEach
StatsCallback ==
    /\ op = "issued"
    /\ arg.issue = "forEach"
    /\ \E i \in out.pending, err \in BOOLEAN :
         out' = IF err
                THEN StatsClosure(out.pending \ {i}, out.results, out.completed,
                                  Append(out.writes, StatsFailed))
                ELSE StatsClosure(out.pending \ {i}, out.results \cup {StatsKeys[i]},
                                  out.completed + 1,
                                  IF out.completed + 1 = StatsTotal
                                  THEN Append(out.writes, StatsSucceeded)
                                  ELSE out.writes)
    /\ UNCHANGED <<op, arg>>

\* the callback of the query the nested handler is waiting for: an error
\* answers and issues nothing more, the last result answers, any other
\* result issues the next query
StatsNestedCallback ==
    /\ op = "issued"
    /\ arg.issue = "nested"
    /\ \E i \in out.pending, err \in BOOLEAN :
         out' = IF err
                THEN StatsClosure({}, out.results, out.completed,
                                  Append(out.writes, StatsFailed))
                ELSE IF i = StatsTotal
                THEN StatsClosure({}, out.results \cup {StatsKeys[i]}, out.completed + 1,
                                  Append(out.writes, StatsSucceeded))
                ELSE StatsClosure({i + 1}, out.results \cup {StatsKeys[i]},
                                  out.completed + 1, out.writes)
    /\ UNCHANGED <<op, arg>>

InitStats ==
    /\ op = "issued"
    /\ arg \in StatsRequests
    /\ out = StatsClosure(IF arg.issue = "forEach" THEN 1..StatsTotal ELSE {1}, {}, 0, <<>>)

NextStats == StatsCallback \/ StatsNestedCallback

SpecStats == InitStats /\ [][NextStats]_vars

\* C28: in the forEach handler there is never a second write to the
\* response, a success is written only with all five results stored, and
\* once every callback has run there is exactly one response: the success
\* when none failed, a single error otherwise.
C28_ExactlyOneResponse ==
    arg.issue = "forEach" =>
        /\ Len(out.writes) <= 1
        /\ \A w \in 1..Len(out.writes) :
             out.writes[w] = StatsSucceeded =>
                 {StatsKeys[i] : i \in 1..StatsTotal} = out.results
        /\ out.pending = {} =>
             out.writes = IF out.completed = StatsTotal THEN <<StatsSucceeded>>
                          ELSE <<StatsFailed>>

----------------------------------------------------------------------------
(* GET /api/records of the variant built on utils/responseHelpers           *)
(* (unnamed/part_000, part_003), step by step.  arg.rows is the table;      *)
(* storage answers a query with the rows of the table its text and its      *)
(* bound values select.  op and out are those of the handlers above.        *)

HelperRecords == "GET /api/records (utils/responseHelpers)"

\* text LIKE %part%
Contains(text, part) ==
    \E k \in 0..(Len(text) - Len(part)) : SubSeq(text, k + 1, k + Len(part)) = part

\* the rows the query of getGeneViewResults selects
GeneSearchRows(table, searchQuery) ==
    SelectSeq(table, LAMBDA row : Contains(row.symbol.s, ToText(searchQuery)))

\* buildSearchQuery(req.query, params)
RecordsBuilt(request) ==
    LET p == parseQueryParams(request.q, request.options)
    IN buildSearchQuery(request.q, [page |-> p.page, limit |-> p.limit, sortBy |-> p.sortBy,
                                    sortOrder |-> p.sortOrder])

\* const { query, countQuery, searchParams } = buildSearchQuery(...): the
\* result has no property searchParams
RecordsSearchParams(request) == Undef

\* the rows a flat query selects: an unbound placeholder is NULL and a
\* comparison with NULL selects no row
FlatSearchRows(table, request) ==
    IF RecordsSearchParams(request) = Undef /\ HasAtom(RecordsBuilt(request).countQuery, " WHERE ")
    THEN <<>>
    ELSE table

\* the handler up to its first query
ReceiveRecords(request) ==
    LET p == parseQueryParams(request.q, request.options)
        built == RecordsBuilt(request)
    IN IF ~validateSortBy(p.sortBy)
       THEN Handling("done", <<>>, <<>>, <<>>, Undef,
                     <<Respond("json", 400, Str(<<"Invalid sort field">>))>>)
       ELSE IF Truthy(p.searchQuery) /\ shouldUseGeneViewNonBlank(p.searchQuery)
       THEN Handling("genes", <<GeneSearchQuery(p.sortBy, p.sortOrder)>>,
                     <<<<SearchPattern(p.searchQuery), SearchPattern(p.searchQuery)>>>>,
                     <<>>, Undef, <<>>)
       ELSE IF built.raised
       THEN Handling("done", <<>>, <<>>, <<>>, Undef, <<Respond("json", 500, InternalError)>>)
       ELSE Handling("count", <<built.countQuery>>, <<RecordsSearchParams(request)>>, <<>>,
                     Undef, <<>>)

\* the callback of db.get(countQuery, searchParams, ...)
RecordsCountCallback(request, o, err, count) ==
    IF err
    THEN Handling("done", o.sql, o.params, Append(o.failed, "count"), o.total,
                  Append(o.responses, SearchFailed(request)))
    ELSE Handling("data", Append(o.sql, RecordsBuilt(request).query),
                  Append(o.params, RecordsSearchParams(request)), o.failed,
                  Or(Undef, Num(count)), o.responses)

RecordsStrands == {Str(<<"+">>), Str(<<"-">>)}
RecordsSymbols == {Str(<<"B", "R", "1">>), Str(<<"T", "P">>)}

RecordsTables ==
    UNION {{[i \in 1..n |-> [Row(Num(i), sy[i], CellLines[1], Str(<<"viability">>), Num(100),
                                 Num(200), Str(<<"A", "C", "G", "T">>), Num(1))
                                EXCEPT !.strand = st[i]]] :
               sy \in [1..n -> RecordsSymbols], st \in [1..n -> RecordsStrands]} :
           n \in 0..2}

RecordsFilters ==
    {FilterInput({"query", "strand"},
                 [x \in {"query", "strand"} |-> IF x = "query" THEN v ELSE s]) :
        v \in {Undef, Str(<<"B", "R">>), Str(<<" ">>)}, s \in {Undef, Str(<<"+">>)}}

RecordsOptions ==
    [page : {Undef}, limit : {Undef}, sortBy : {Undef, Str(<<"pubmed">>)},
     sortOrder : {Undef, Str(<<"DESC">>)}]

RecordsReceived ==
    /\ op = "received"
    /\ LET s == ReceiveRecords(arg)
       IN op' = s.op /\ out' = s.out
    /\ UNCHANGED arg

RecordsGenesAnswered ==
    /\ op = "genes"
    /\ \E err \in BOOLEAN :
          LET p == parseQueryParams(arg.q, arg.options)
              s == GenesCallback(arg, out, err, GeneSearchRows(arg.rows, p.searchQuery))
          IN op' = s.op /\ out' = s.out
    /\ UNCHANGED arg

RecordsCountAnswered ==
    /\ op = "count"
    /\ \E err \in BOOLEAN :
          LET s == RecordsCountCallback(arg, out, err, Len(FlatSearchRows(arg.rows, arg)))
          IN op' = s.op /\ out' = s.out
    /\ UNCHANGED arg

RecordsDataAnswered ==
    /\ op = "data"
    /\ \E err \in BOOLEAN :
          LET s == DataCallback(arg, out, err, FlatSearchRows(arg.rows, arg))
          IN op' = s.op /\ out' = s.out
    /\ UNCHANGED arg

InitRecords ==
    /\ op = "received"
    /\ out = Handling("received", <<>>, <<>>, <<>>, Undef, <<>>).out
    /\ \E q \in RecordsFilters, o \in RecordsOptions, rows \in RecordsTables :
          arg = Request(HelperRecords, q, o, Undef, "none", rows)

NextRecords ==
    \/ RecordsReceived
    \/ RecordsGenesAnswered
    \/ RecordsCountAnswered
    \/ RecordsDataAnswered

SpecRecords == InitRecords /\ [][NextRecords]_vars

\* C29: every statement sent to storage that buildSearchQuery built, the
\* count query as well as the data query, is sent with the params list the
\* same call of the builder returned.
C29_BuilderParamsAreBound ==
    \A i \in 1..Len(out.sql) :
        out.sql[i] \in {RecordsBuilt(arg).countQuery, RecordsBuilt(arg).query} =>
            out.params[i] = RecordsBuilt(arg).params


\* the strands of the measurements of one entry of a response: the sgRNAs
\* of a gene view, or the record itself
StrandsOf(result) ==
    IF "cellLines" \in DOMAIN result
    THEN {result.cellLines[c].sgRNAs[k].strand :
             <<c, k>> \in {ck \in (1..Len(result.cellLines)) \X (1..MaxRows) :
                              ck[2] <= Len(result.cellLines[ck[1]].sgRNAs)}}
    ELSE {result.strand}

\* C30: in a search response that echoes strand '+' or '-' in filters, every
\* returned measurement, of a gene view or of a flat record, has that
\* strand.
C30_ResultsMatchEchoedStrand ==
    \A i \in 1..Len(out.responses) :
        LET r == out.responses[i]
        IN (r.status = 200 /\ r.error = Null /\ r.filters # Undef
            /\ r.filters.strand \in RecordsStrands) =>
               \A k \in 1..Len(r.results) : StrandsOf(r.results[k]) \subseteq {r.filters.strand}

================================================================
